---- MODULE Spec2Model ----
(***************************************************************************)
(* State-machine model of sonec's collector orchestrator                    *)
(* (src/sonec/api.py, collect) and of the canonical store it writes         *)
(* (src/sonec/core/models.py).  One collect call runs at a time; the        *)
(* provider behind fetch_since is the environment and answers each call     *)
(* with any batch, or raises.                                               *)
(***************************************************************************)
EXTENDS Integers, Sequences, FiniteSets, TLC

(***************************************************************************)
(* Python values.  None is the empty tuple and a present value v is <<v>>;  *)
(* a string is a tuple of tokens, so that "" is <<>> and "search:" + q is   *)
(* a concatenation.                                                         *)
(***************************************************************************)
NONE == <<>>

Some(v) == <<v>>

\* bool(x) of an optional string: None and "" are both falsy.
Truthy(o) == o # NONE /\ o[1] # <<>>

(***************************************************************************)
(* Bounds of the model.                                                     *)
(***************************************************************************)
\* items in one batch
MaxBatch == 2

\* fetch_since calls over a whole behaviour
MaxFetches == 2

\* collect calls over a whole behaviour
MaxRuns == 2

\* provider instances constructed over a whole behaviour
MaxInstances == 2

\* fetch requests one Bluesky provider instance sends
MaxRequests == 2

\* the posts the provider may return
Items == {[external_id |-> "at://post/1", created_at |-> 1, author |-> "did:plc:alice",
           handle |-> "alice.bsky.social", text |-> "hello"],
          [external_id |-> "at://post/2", created_at |-> 2, author |-> "did:plc:alice",
           handle |-> "alice.bsky.social", text |-> "hello"]}

ProviderNames == {"bluesky"}

\* the provider argument: empty, or a registered name
ProviderArgs == {""} \cup ProviderNames

SourceArgs == {NONE, Some(<<"@alice">>)}

QArgs == {NONE, Some(<<"term">>)}

\* (since_utc, until_utc): no bound, a lower bound that is the created_at of
\* post/2, an upper bound that is the created_at of post/1
WindowArgs == {<<NONE, NONE>>, <<Some(2), NONE>>, <<NONE, Some(1)>>}

PageLimitArgs == {150}

LimitArgs == {NONE, Some(0), Some(1)}

CursorTokens == {NONE, Some(<<>>), Some(<<"c1">>), Some(<<"c2">>)}

\* ProviderError subclasses a fetch_since call may raise
ErrKinds == {"InvalidQuery", "RateLimited", "TemporaryNetworkError"}

RECURSIVE SeqsUpTo(_, _)
SeqsUpTo(S, n) ==
    IF n = 0 THEN {<<>>}
    ELSE LET shorter == SeqsUpTo(S, n - 1)
         IN  shorter \cup {Append(s, x) : s \in {t \in shorter : Len(t) = n - 1}, x \in S}

Batches == [items : SeqsUpTo(Items, MaxBatch),
            next_cursor : CursorTokens,
            reached_until : BOOLEAN]

ArgSets ==
    {[provider |-> p, source |-> src, q |-> q, since_utc |-> w[1], until_utc |-> w[2],
      page_limit |-> pl, limit |-> l] :
        p \in ProviderArgs, src \in SourceArgs, q \in QArgs, w \in WindowArgs,
        pl \in PageLimitArgs, l \in LimitArgs}

(***************************************************************************)
(* Program constants.                                                       *)
(***************************************************************************)
\* remaining when limit is None
Sentinel == 10000000

\* upper clamp of page_limit
PageCap == 100

VARIABLES
    \* canonical store
    providers, sources, authors, posts, cursors, jobs,
    \* timezone.now() calls so far
    now,
    \* the running collect call: position and locals
    pc, args, prov_rec, src_rec, job, since_dt, until_dt,
    total_inserted, total_conflicts, last_cursor_token, reached_until_flag,
    remaining, page_size, cursor_token,
    \* how the last collect call ended
    report, raised,
    \* environment: collect calls and fetch_since calls made so far
    runs, fetches,
    \* the provider's answers to the current call so far or, when it repeats the
    \* preceding call, the answers still to be given again
    replaying, tape,
    \* observations of the running call: fetch_since calls made, items returned,
    \* items returned inside the window and their external ids, the last non-null
    \* and the last non-empty next_cursor returned, the error fetch_since raised
    fetch_calls, seen_items, seen_in_window, seen_kept, seen_nonnull, seen_nonempty,
    fail_kind,
    \* the limit and the cursor passed to the last fetch_since call
    request_limit, request_cursor,
    \* the stored cursor and the posts when the call began, and the posts as of
    \* the last page it committed
    pos_before, posts_before, committed,
    \* the client of query: the arguments of its chain of calls, the after_key
    \* of the last call, the page it returned and the items of all pages so far
    q_args, q_after, q_page, q_seen,
    \* collect calls running side by side: position and locals of each
    procs,
    \* the provider registry: _REGISTRY, the registry call each thread is in or
    \* made last, the provider instances constructed so far and those returned
    registry, threads, made, issued,
    \* a BlueskyProvider instance (client, base URL, auth state), the session
    \* its configure returned, the answer the login got, the fetch requests the
    \* instance sent, the answer its last fetch_since call got and what the
    \* last call on the instance raised
    bsky, session, login, sent, response, bsky_raised,
    \* the Django settings of the process; the db_url of the last configure
    \* call, the RuntimeInfo it returned and the error it raised
    settings, cfg_call, cfg_result, cfg_raised,
    \* the last status call: its arguments, the tables as it read them, the
    \* snapshot it returned and the error it raised
    status_args, status_read, snapshot, status_raised

store == <<providers, sources, authors, posts, cursors, jobs>>

locals == <<args, prov_rec, src_rec, job, since_dt, until_dt,
            total_inserted, total_conflicts, last_cursor_token,
            reached_until_flag, remaining, page_size, cursor_token>>

counters == <<total_inserted, total_conflicts, last_cursor_token,
              reached_until_flag, remaining, cursor_token>>

observed == <<fetch_calls, seen_items, seen_in_window, seen_kept, seen_nonnull,
              seen_nonempty, fail_kind, request_limit, request_cursor,
              pos_before, posts_before, committed>>

query_vars == <<q_args, q_after, q_page, q_seen>>

conc_vars == <<procs>>

\* the provider registry and its callers
registry_vars == <<registry, threads, made, issued>>

\* everything outside collect and query
\* a Bluesky provider instance and its HTTP exchanges
bluesky_vars == <<bsky, session, login, sent, response, bsky_raised>>

\* the runtime configuration and the calls of configure
config_vars == <<settings, cfg_call, cfg_result, cfg_raised>>

\* the calls of status
status_vars == <<status_args, status_read, snapshot, status_raised>>

lib_vars == <<registry_vars, bluesky_vars, config_vars, status_vars>>

\* the state of the single collect call
collect_vars == <<pc, locals, report, raised, runs, fetches, replaying, tape, observed>>

vars == <<store, now, collect_vars, query_vars, conc_vars, lib_vars>>


(***************************************************************************)
(* Store helpers: unique keys, get_or_create, bulk_create(ignore_conflicts) *)
(***************************************************************************)
\* the fields of each table's unique_together constraint
SourceKey == {"provider", "descriptor"}

AuthorKey == {"provider", "external_id"}

PostKey == {"provider", "external_id"}

CursorKey == {"provider", "source"}

\* ids of the rows of table t that agree with row r on the fields of key
SameKey(t, r, key) == {i \in 1..Len(t) : \A f \in key : t[i][f] = r[f]}

\* Model.objects.get_or_create: the table after the call
GetOrCreate(t, r, key) == IF SameKey(t, r, key) = {} THEN Append(t, r) ELSE t

\* ... and the id of the row it returns
RowId(t, r, key) == CHOOSE i \in SameKey(t, r, key) : TRUE

\* Author.objects.bulk_create(rows, ignore_conflicts=True): INSERT OR IGNORE,
\* row by row, under the unique key (provider, external_id)
RECURSIVE BulkCreateAuthors(_, _)
BulkCreateAuthors(t, rows) ==
    IF rows = <<>> THEN t
    ELSE BulkCreateAuthors(GetOrCreate(t, Head(rows), AuthorKey), Tail(rows))

\* a bulk insert that no unique key guards
BulkCreatePostsUnguarded(t, rows) == t \o rows

\* a bulk insert that writes the rows last to first
RECURSIVE BulkCreatePostsReversed(_, _)
BulkCreatePostsReversed(t, rows) ==
    IF rows = <<>> THEN t
    ELSE GetOrCreate(BulkCreatePostsReversed(t, Tail(rows)), Head(rows), PostKey)

\* Post.objects.bulk_create(rows, ignore_conflicts=True), likewise
RECURSIVE BulkCreatePosts(_, _)
BulkCreatePosts(t, rows) ==
    IF rows = <<>> THEN t
    ELSE BulkCreatePosts(GetOrCreate(t, Head(rows), PostKey), Tail(rows))

(***************************************************************************)
(* collect: argument handling                                               *)
(***************************************************************************)
\* a validation that lets a call with both source and q through
InvalidArgsNeitherOnly(a) ==
    \/ a.provider = ""
    \/ (~Truthy(a.source) /\ ~Truthy(a.q))

\* api.py:236  not provider or (not source and not q) or (source and q)
InvalidArgs(a) ==
    \/ a.provider = ""
    \/ (~Truthy(a.source) /\ ~Truthy(a.q))
    \/ (Truthy(a.source) /\ Truthy(a.q))

\* api.py:264-267
Descriptor(a) == IF Truthy(a.source) THEN a.source[1] ELSE <<"search:">> \o a.q[1]

Min(a, b) == IF a < b THEN a ELSE b

Max(a, b) == IF a > b THEN a ELSE b

\* the budget taken with "if limit" instead of "if limit is not None"
InitialRemainingTruthy(limit) == IF limit # NONE /\ limit[1] # 0 THEN limit[1] ELSE Sentinel

\* api.py:284
InitialRemaining(limit) == IF limit # NONE THEN limit[1] ELSE Sentinel

\* a page size clamped from above only
PageSizeNoFloor(page_limit) == Min(page_limit, PageCap)

\* api.py:285
PageSize(page_limit) == Max(1, Min(page_limit, PageCap))

\* api.py:290
RequestLimit(size, rem) == Min(size, rem)

(***************************************************************************)
(* collect: one page                                                        *)
(***************************************************************************)
\* t lies in [since, until], an absent bound being no bound
WithinBounds(t, since, until) ==
    /\ (since = NONE \/ t >= since[1])
    /\ (until = NONE \/ t <= until[1])

\* a lower bound that excludes the bound itself
BeforeSinceInclusive(it, since) == since # NONE /\ it.created_at <= since[1]

\* api.py:339
BeforeSince(it, since) == since # NONE /\ it.created_at < since[1]

\* api.py:341
AfterUntil(it, until) == until # NONE /\ it.created_at > until[1]

\* the author lookup made across providers
ExistingAuthorsAnyProvider(auths, prov, keys) ==
    [k \in {auths[i].external_id : i \in {j \in 1..Len(auths) :
                auths[j].external_id \in keys}}
        |-> CHOOSE i \in 1..Len(auths) : auths[i].external_id = k]

\* api.py:303-306, 324-325  external_id -> id of the stored authors among keys
ExistingAuthors(auths, prov, keys) ==
    [k \in {auths[i].external_id : i \in {j \in 1..Len(auths) :
                auths[j].provider = prov /\ auths[j].external_id \in keys}}
        |-> CHOOSE i \in 1..Len(auths) : auths[i].provider = prov /\ auths[i].external_id = k]

\* api.py:307-318
RECURSIVE NewAuthors(_, _, _)
NewAuthors(items, existing, prov) ==
    IF items = <<>> THEN <<>>
    ELSE LET it == Head(items)
             rest == NewAuthors(Tail(items), existing, prov)
         IN  IF it.author \notin DOMAIN existing
             THEN <<[provider |-> prov, external_id |-> it.author,
                     handle |-> it.handle]>> \o rest
             ELSE rest

\* author upserts that refresh the handle of the authors already stored
AuthorsAfterUpsert(auths, items, prov) ==
    LET new == NewAuthors(items, << >>, prov)
        handle(a) == IF \E n \in 1..Len(new) : new[n].external_id = a.external_id
                     THEN new[CHOOSE n \in 1..Len(new) :
                                 new[n].external_id = a.external_id].handle
                     ELSE a.handle
    IN  BulkCreateAuthors([i \in 1..Len(auths) |->
                              [auths[i] EXCEPT !.handle = handle(auths[i])]], new)

\* api.py:319-327  the authors table after the author upserts of a batch
AuthorsAfter(auths, items, prov) ==
    LET keys == {items[i].author : i \in 1..Len(items)}
        new == NewAuthors(items, ExistingAuthors(auths, prov, keys), prov)
    IN  IF new # <<>> THEN BulkCreateAuthors(auths, new) ELSE auths

\* the dedup lookup made against another provider's rows
ExistingPostsOfOthers(ps, prov, ids) ==
    {ps[i].external_id : i \in {j \in 1..Len(ps) :
        ps[j].provider # prov /\ ps[j].external_id \in ids}}

\* api.py:330-333
ExistingPosts(ps, prov, ids) ==
    {ps[i].external_id : i \in {j \in 1..Len(ps) :
        ps[j].provider = prov /\ ps[j].external_id \in ids}}

\* the scan with the dedup test ahead of the window filter
RECURSIVE ScanItemsDedupFirst(_, _, _, _, _, _)
ScanItemsDedupFirst(items, existing_posts, existing_authors, since, until, prov) ==
    IF items = <<>> THEN [create |-> <<>>, conflicts |-> 0]
    ELSE LET it == Head(items)
             rest == ScanItemsDedupFirst(Tail(items), existing_posts, existing_authors,
                                         since, until, prov)
         IN  IF it.external_id \in existing_posts
                  THEN [rest EXCEPT !.conflicts = @ + 1]
             ELSE IF BeforeSince(it, since) THEN rest
             ELSE IF AfterUntil(it, until) THEN rest
             ELSE IF it.author \notin DOMAIN existing_authors THEN rest
             ELSE [rest EXCEPT !.create =
                       <<[provider |-> prov, external_id |-> it.external_id,
                          author_id |-> existing_authors[it.author],
                          text |-> it.text,
                          created_at |-> it.created_at]>> \o @]

\* api.py:335-365  the rows queued for insertion and the conflicts counted
RECURSIVE ScanItems(_, _, _, _, _, _)
ScanItems(items, existing_posts, existing_authors, since, until, prov) ==
    IF items = <<>> THEN [create |-> <<>>, conflicts |-> 0]
    ELSE LET it == Head(items)
             rest == ScanItems(Tail(items), existing_posts, existing_authors,
                               since, until, prov)
         IN  IF BeforeSince(it, since) THEN rest
             ELSE IF AfterUntil(it, until) THEN rest
             ELSE IF it.external_id \in existing_posts
                  THEN [rest EXCEPT !.conflicts = @ + 1]
             ELSE IF it.author \notin DOMAIN existing_authors THEN rest
             ELSE [rest EXCEPT !.create =
                       <<[provider |-> prov, external_id |-> it.external_id,
                          author_id |-> existing_authors[it.author],
                          text |-> it.text,
                          created_at |-> it.created_at]>> \o @]

\* a loop that goes on after an empty batch
LoopBreaksIgnoringEmpty(cursor, n, rem) == cursor = NONE \/ rem <= 0

\* a loop that only a null cursor ends
LoopBreaksOnNullCursor(cursor, n, rem) == cursor = NONE

\* api.py:392  cursor_token is None or len(batch.items) == 0 or remaining <= 0
LoopBreaks(cursor, n, rem) == cursor = NONE \/ n = 0 \/ rem <= 0

\* api.py:382-388  the batch holds an item older than since
SpansBeyondSince(items, since) ==
    since # NONE /\ \E i \in 1..Len(items) : items[i].created_at < since[1]

\* a boundary flag that an item later than until sets as well
ReachedUntilEitherBound(flag, b, since, until) ==
    \/ flag
    \/ SpansBeyondSince(b.items, since)
    \/ \E i \in 1..Len(b.items) : AfterUntil(b.items[i], until)
    \/ b.reached_until

\* api.py:381-389  reached_until_flag after batch b: set by an item older
\* than since or by the provider's batch.reached_until; until is not looked at
ReachedUntil(flag, b, since, until) ==
    \/ flag
    \/ SpansBeyondSince(b.items, since)
    \/ b.reached_until


(***************************************************************************)
(* The stored cursor of a (provider, source): position.cursor, or None      *)
(* when there is no row or the position is {}.                              *)
(***************************************************************************)
StoredCursor(cs, prov, src) ==
    LET S == SameKey(cs, [provider |-> prov, source |-> src], CursorKey)
    IN  IF S = {} THEN NONE ELSE cs[CHOOSE i \in S : TRUE].position

\* a cursor row that is written when created and never overwritten
PersistCursorOnce(cs, prov, src, last) ==
    GetOrCreate(cs, [provider |-> prov, source |-> src, position |-> last], CursorKey)

\* api.py:397-400  get_or_create the Cursor row, then overwrite its position
\* when the run saw a cursor
PersistCursor(cs, prov, src, last) ==
    LET row == [provider |-> prov, source |-> src, position |-> NONE]
        cs1 == GetOrCreate(cs, row, CursorKey)
    IN  IF last # NONE THEN [cs1 EXCEPT ![RowId(cs1, row, CursorKey)].position = last]
        ELSE cs1

(***************************************************************************)
(* The provider registry (providers/registry.py): a process-wide dict from  *)
(* lower-cased names to provider classes.                                   *)
(***************************************************************************)
\* a provider name as a caller writes it: its letters and their letter case
NameBases == {"alpha", "bluesky", "dummy"}

NameShapes == {"lower", "title", "upper"}

Names == [base : NameBases, shape : NameShapes]

\* a registry that keeps the caller's spelling
LowerIdentity(name) == name

\* registry.py:46, 69, 91, 116  name.lower()
Lower(name) == [name EXCEPT !.shape = "lower"]

\* the classes a caller may hand to register; NotAProvider does not derive
\* from Provider
Factories == {"BlueskyProvider", "DummyProvider", "NotAProvider"}

\* registry.py:72  issubclass(provider_cls, Provider)
IsProvider(cls) == cls \in {"BlueskyProvider", "DummyProvider"}

\* registry.py:15-17  _REGISTRY as the module is imported
BuiltinRegistry ==
    [k \in {[base |-> "bluesky", shape |-> "lower"]} |-> "BlueskyProvider"]

\* the order of str on the names of the model
StrRank(k) ==
    CASE k.base = "alpha" -> 1
      [] k.base = "bluesky" -> 2
      [] k.base = "dummy" -> 3

RECURSIVE Sorted(_)
Sorted(S) ==
    IF S = {} THEN <<>>
    ELSE LET m == CHOOSE x \in S : \A y \in S : StrRank(x) <= StrRank(y)
         IN  <<m>> \o Sorted(S \ {m})

\* registry.py:29  sorted(_REGISTRY.keys())
Available(reg) == Sorted(DOMAIN reg)

\* registry.py:46  name.lower() in _REGISTRY
Has(reg, name) == Lower(name) \in DOMAIN reg

\* registry.py:70-73  the error register raises, if any
RegisterError(reg, key, cls, override) ==
    IF ~override /\ key \in DOMAIN reg THEN Some("ValueError")
    ELSE IF ~IsProvider(cls) THEN Some("TypeError")
    ELSE NONE

\* registry.py:74  _REGISTRY[key] = provider_cls
Stored(reg, key, cls) ==
    [k \in DOMAIN reg \cup {key} |-> IF k = key THEN cls ELSE reg[k]]

\* registry.py:94  del _REGISTRY[key]
Deleted(reg, key) == [k \in DOMAIN reg \ {key} |-> reg[k]]

\* the threads that call the registry
Threads == {1, 2}

\* a thread that has made no registry call yet; before is the registry as the
\* thread's last call found it
IdleThread ==
    [pc |-> "idle", op |-> "", name |-> NONE, key |-> NONE, cls |-> "",
     override |-> FALSE, raised |-> NONE, result |-> NONE,
     before |-> BuiltinRegistry]

(***************************************************************************)
(* The Bluesky provider (providers/bluesky.py): configure with its login,   *)
(* and the HTTP exchange of fetch_since.  A response is its status code, 0  *)
(* standing for a request that failed in transport and got no response.     *)
(***************************************************************************)
\* bluesky.py:57-67  __init__
NewBluesky ==
    [client |-> NONE, base_url |-> "https://public.api.bsky.app",
     auth_state |-> "anonymous"]

\* the collect calls that may run side by side
Procs == {1, 2}

\* a call that has not begun
IdleProc ==
    [pc |-> "idle", args |-> NONE, src |-> 0, lost_race |-> FALSE, job |-> 0,
     items |-> <<>>, new_authors |-> <<>>,
     existing_authors |-> <<>>, existing_posts |-> {}, inserted |-> 0, conflicts |-> 0,
     raised |-> NONE]

(***************************************************************************)
(* Initial state: an empty store, no call made yet.                         *)
(***************************************************************************)
InitProcess ==
    /\ providers = {} /\ sources = <<>> /\ authors = <<>> /\ posts = <<>>
    /\ cursors = <<>> /\ jobs = <<>>
    /\ now = 0
    /\ pc = "idle"
    /\ args = NONE /\ prov_rec = NONE /\ src_rec = 0 /\ job = 0
    /\ since_dt = NONE /\ until_dt = NONE
    /\ total_inserted = 0 /\ total_conflicts = 0
    /\ last_cursor_token = NONE /\ reached_until_flag = FALSE
    /\ remaining = 0 /\ page_size = 0 /\ cursor_token = NONE
    /\ report = NONE /\ raised = NONE
    /\ runs = 0 /\ fetches = 0
    /\ replaying = FALSE /\ tape = <<>>
    /\ fetch_calls = 0 /\ seen_items = 0 /\ seen_in_window = 0 /\ seen_kept = {}
    /\ seen_nonnull = NONE /\ seen_nonempty = NONE /\ fail_kind = NONE
    /\ request_limit = 0
    /\ request_cursor = NONE
    /\ pos_before = NONE /\ posts_before = <<>> /\ committed = <<>>
    /\ q_args = NONE /\ q_after = NONE /\ q_page = NONE /\ q_seen = <<>>
    /\ procs = [p \in Procs |-> IdleProc]
    /\ registry = BuiltinRegistry
    /\ threads = [t \in Threads |-> IdleThread]
    /\ made = 0 /\ issued = {}
    /\ bsky = NewBluesky
    /\ session = NONE /\ login = NONE /\ sent = <<>> /\ response = NONE
    /\ bsky_raised = NONE
    /\ cfg_call = NONE /\ cfg_result = NONE /\ cfg_raised = NONE
    /\ status_args = NONE /\ status_read = NONE /\ snapshot = NONE
    /\ status_raised = NONE

\* api.py:86-107  the settings configure() installs for database name
Configured(name) == [configured |-> TRUE, database |-> Some(name)]

\* a runtime configured on the in-memory database, its schema migrated
Init == InitProcess /\ settings = Configured(<<":memory:">>)

\* a process in which configure was not called yet
InitUnconfigured == InitProcess /\ settings = [configured |-> FALSE, database |-> NONE]

\* a collect that resumes from the cursor stored by an earlier run
InitialCursorResumed(stored) == stored

\* api.py:286  cursor_token: Optional[str] = None -- the cursor of the first
\* fetch_since call; the stored Cursor row is not read
InitialCursor(stored) == NONE

(***************************************************************************)
(* collect(...) with arguments that fail validation (api.py:236-237):       *)
(* ValueError before anything is written.                                   *)
(***************************************************************************)
CollectInvalid(a) ==
    /\ pc = "idle"
    /\ runs < MaxRuns
    /\ InvalidArgs(a)
    /\ runs' = runs + 1
    /\ job' = 0
    /\ report' = NONE
    /\ raised' = Some("ValueError")
    /\ fail_kind' = NONE
    /\ UNCHANGED <<store, now, pc, args, prov_rec, src_rec, since_dt, until_dt,
                   counters, page_size, fetches, replaying, tape, fetch_calls,
                   seen_items, seen_in_window, seen_kept, seen_nonnull,
                   seen_nonempty, request_limit, request_cursor, pos_before, posts_before,
                   committed,
                   query_vars, conc_vars, lib_vars>>

\* a collect that is only a scaffold: it raises NotImplementedError and does
\* nothing else
CollectScaffold(a, again) ==
    /\ pc = "idle"
    /\ runs < MaxRuns
    /\ ~InvalidArgs(a)
    /\ runs' = runs + 1
    /\ args' = Some(a)
    /\ job' = 0
    /\ report' = NONE
    /\ raised' = Some("NotImplementedError")
    /\ fail_kind' = NONE
    /\ UNCHANGED <<store, now, pc, prov_rec, src_rec, since_dt, until_dt,
                   counters, page_size, fetches, replaying, tape, fetch_calls,
                   seen_items, seen_in_window, seen_kept, seen_nonnull,
                   seen_nonempty, request_limit, request_cursor, pos_before, posts_before,
                   committed,
                   query_vars, conc_vars, lib_vars>>

(***************************************************************************)
(* collect(...) up to the head of the paging loop (api.py:228-289):         *)
(* resolve and configure the provider, parse the bounds, get_or_create the  *)
(* Provider and Source rows, open the FetchJob, initialise the locals.      *)
(* again says that this call repeats the preceding, successful, call with   *)
(* the same arguments against a provider that answers as it did then.       *)
(***************************************************************************)
CollectStart(a, again) ==
    /\ pc = "idle"
    /\ runs < MaxRuns
    /\ ~InvalidArgs(a)
    /\ again => (report # NONE /\ args = Some(a))
    /\ LET prov == a.provider
           sources1 == GetOrCreate(sources,
                           [provider |-> prov, descriptor |-> Descriptor(a)], SourceKey)
           src == RowId(sources1,
                           [provider |-> prov, descriptor |-> Descriptor(a)], SourceKey)
           rem == InitialRemaining(a.limit)
       IN  /\ providers' = providers \cup {prov}
           /\ sources' = sources1
           /\ jobs' = Append(jobs, [provider |-> prov, source |-> src,
                                    started_at |-> now, finished_at |-> NONE,
                                    status |-> "running", stats |-> NONE])
           /\ job' = Len(jobs) + 1
           /\ prov_rec' = Some(prov)
           /\ src_rec' = src
           /\ remaining' = rem
           /\ pc' = IF rem > 0 THEN "loop" ELSE "finalize"
           /\ pos_before' = StoredCursor(cursors, prov, src)
           /\ cursor_token' = InitialCursor(StoredCursor(cursors, prov, src))
    /\ now' = now + 1
    /\ runs' = runs + 1
    /\ args' = Some(a)
    /\ since_dt' = a.since_utc
    /\ until_dt' = a.until_utc
    /\ total_inserted' = 0 /\ total_conflicts' = 0
    /\ last_cursor_token' = NONE /\ reached_until_flag' = FALSE
    /\ page_size' = PageSize(a.page_limit)
    /\ report' = NONE /\ raised' = NONE
    /\ replaying' = again
    /\ tape' = IF again THEN tape ELSE <<>>
    /\ fetch_calls' = 0 /\ seen_items' = 0 /\ seen_in_window' = 0 /\ seen_kept' = {}
    /\ seen_nonnull' = NONE /\ seen_nonempty' = NONE /\ fail_kind' = NONE
    /\ request_limit' = 0
    /\ request_cursor' = NONE
    /\ posts_before' = posts /\ committed' = posts
    /\ UNCHANGED <<authors, posts, cursors, fetches, query_vars, conc_vars, lib_vars>>


(***************************************************************************)
(* One iteration of the paging loop (api.py:289-393) in which fetch_since   *)
(* returns batch b: the page's transaction (author upserts, dedup, window   *)
(* filter, post inserts), then cursor tracking, boundary detection, the     *)
(* budget and the loop exit.                                                *)
(***************************************************************************)
FetchPage(b) ==
    /\ pc = "loop"
    /\ fetches < MaxFetches
    /\ LET prov == prov_rec[1]
           items == b.items
           author_keys == {items[i].author : i \in 1..Len(items)}
           authors1 == AuthorsAfter(authors, items, prov)
           existing_authors == ExistingAuthors(authors1, prov, author_keys)
           post_ids == {items[i].external_id : i \in 1..Len(items)}
           existing_posts == ExistingPosts(posts, prov, post_ids)
           scan == ScanItems(items, existing_posts, existing_authors,
                             since_dt, until_dt, prov)
           posts1 == IF scan.create # <<>> THEN BulkCreatePosts(posts, scan.create)
                     ELSE posts
           cursor1 == IF Truthy(b.next_cursor) THEN b.next_cursor ELSE NONE
           rem == remaining - Len(items)
           inwin == {i \in 1..Len(items) :
                        WithinBounds(items[i].created_at, since_dt, until_dt)}
       IN  /\ authors' = authors1
           /\ posts' = posts1
           /\ committed' = posts1
           /\ total_conflicts' = total_conflicts + scan.conflicts
           /\ total_inserted' = total_inserted + Len(scan.create)
           /\ cursor_token' = cursor1
           /\ last_cursor_token' = IF Truthy(b.next_cursor) THEN b.next_cursor
                                   ELSE last_cursor_token
           /\ reached_until_flag' = ReachedUntil(reached_until_flag, b, since_dt, until_dt)
           /\ remaining' = rem
           /\ pc' = IF LoopBreaks(cursor1, Len(items), rem)
                    THEN "finalize"
                    ELSE IF rem > 0 THEN "loop" ELSE "finalize"
           /\ seen_items' = seen_items + Len(items)
           /\ seen_in_window' = seen_in_window + Cardinality(inwin)
           /\ seen_kept' = seen_kept \cup {items[i].external_id : i \in inwin}
    /\ seen_nonnull' = IF b.next_cursor # NONE THEN b.next_cursor ELSE seen_nonnull
    /\ seen_nonempty' = IF b.next_cursor \notin {NONE, Some(<<>>)} THEN b.next_cursor
                        ELSE seen_nonempty
    /\ fetch_calls' = fetch_calls + 1
    /\ request_limit' = RequestLimit(page_size, remaining)
    /\ request_cursor' = cursor_token
    /\ fetches' = fetches + 1
    /\ tape' = IF replaying THEN Tail(tape) ELSE Append(tape, b)
    /\ UNCHANGED <<providers, sources, cursors, jobs, now, args, prov_rec, src_rec,
                   job, since_dt, until_dt, page_size, report, raised, runs, replaying,
                   fail_kind, pos_before, posts_before, query_vars, conc_vars, lib_vars>>

\* the provider answers a call with any batch
FetchAny == \E b \in Batches : ~replaying /\ FetchPage(b)

\* the provider answers as it did in the preceding call
FetchSame == replaying /\ tape # <<>> /\ FetchPage(Head(tape))

\* a failure path that also undoes the pages the run had committed
FetchRaisesRollback(kind) ==
    /\ pc = "loop"
    /\ fetches < MaxFetches
    /\ ~replaying
    /\ jobs' = [jobs EXCEPT ![job].status = "failed", ![job].finished_at = Some(now)]
    /\ posts' = posts_before
    /\ now' = now + 1
    /\ raised' = Some(kind)
    /\ fail_kind' = Some(kind)
    /\ pc' = "idle"
    /\ fetch_calls' = fetch_calls + 1
    /\ request_limit' = RequestLimit(page_size, remaining)
    /\ request_cursor' = cursor_token
    /\ fetches' = fetches + 1
    /\ UNCHANGED <<providers, sources, authors, cursors, locals, report, runs,
                   replaying, tape, seen_items, seen_in_window, seen_kept, seen_nonnull,
                   seen_nonempty, pos_before, posts_before, committed,
                   query_vars, conc_vars, lib_vars>>

\* a provider error that is swallowed, the loop going on to call again
FetchRaisesRetry(kind) ==
    /\ pc = "loop"
    /\ fetches < MaxFetches
    /\ ~replaying
    /\ fail_kind' = Some(kind)
    /\ fetch_calls' = fetch_calls + 1
    /\ request_limit' = RequestLimit(page_size, remaining)
    /\ request_cursor' = cursor_token
    /\ fetches' = fetches + 1
    /\ UNCHANGED <<store, now, pc, locals, report, raised, runs,
                   replaying, tape, seen_items, seen_in_window, seen_kept, seen_nonnull,
                   seen_nonempty, pos_before, posts_before, committed,
                   query_vars, conc_vars, lib_vars>>

\* a failure handler that also stores the cursor the run had reached
FetchRaisesSavingCursor(kind) ==
    /\ pc = "loop"
    /\ fetches < MaxFetches
    /\ ~replaying
    /\ cursors' = PersistCursor(cursors, prov_rec[1], src_rec, last_cursor_token)
    /\ jobs' = [jobs EXCEPT ![job].status = "failed", ![job].finished_at = Some(now)]
    /\ now' = now + 1
    /\ raised' = Some(kind)
    /\ fail_kind' = Some(kind)
    /\ pc' = "idle"
    /\ fetch_calls' = fetch_calls + 1
    /\ request_limit' = RequestLimit(page_size, remaining)
    /\ request_cursor' = cursor_token
    /\ fetches' = fetches + 1
    /\ UNCHANGED <<providers, sources, authors, posts, locals, report, runs,
                   replaying, tape, seen_items, seen_in_window, seen_kept, seen_nonnull,
                   seen_nonempty, pos_before, posts_before, committed,
                   query_vars, conc_vars, lib_vars>>

(***************************************************************************)
(* fetch_since raises a provider error (an Exception): the handler of       *)
(* api.py:423-427 marks the job failed and re-raises.                       *)
(***************************************************************************)
FetchRaises(kind) ==
    /\ pc = "loop"
    /\ fetches < MaxFetches
    /\ ~replaying
    /\ jobs' = [jobs EXCEPT ![job].status = "failed", ![job].finished_at = Some(now)]
    /\ now' = now + 1
    /\ raised' = Some(kind)
    /\ fail_kind' = Some(kind)
    /\ pc' = "idle"
    /\ fetch_calls' = fetch_calls + 1
    /\ request_limit' = RequestLimit(page_size, remaining)
    /\ request_cursor' = cursor_token
    /\ fetches' = fetches + 1
    /\ UNCHANGED <<providers, sources, authors, posts, cursors, locals, report, runs,
                   replaying, tape, seen_items, seen_in_window, seen_kept, seen_nonnull,
                   seen_nonempty, pos_before, posts_before, committed,
                   query_vars, conc_vars, lib_vars>>

(***************************************************************************)
(* The host interrupts the call (KeyboardInterrupt, a BaseException) while  *)
(* it is in the paging loop, before a fetch_since call: "except Exception"  *)
(* at api.py:423 does not catch it, so it propagates and the job row is     *)
(* left as it is.                                                           *)
(***************************************************************************)
Cancel ==
    /\ pc = "loop"
    /\ raised' = Some("KeyboardInterrupt")
    /\ pc' = "idle"
    /\ UNCHANGED <<store, now, locals, report, runs, fetches, replaying, tape, observed,
                   query_vars, conc_vars, lib_vars>>

(***************************************************************************)
(* Finalization of a run whose loop ended (api.py:395-422): one             *)
(* transaction stores the cursor and closes the job; the report is          *)
(* returned.                                                                *)
(***************************************************************************)
Finalize ==
    /\ pc = "finalize"
    /\ cursors' = PersistCursor(cursors, prov_rec[1], src_rec, last_cursor_token)
    /\ jobs' = [jobs EXCEPT ![job].status = "succeeded",
                            ![job].finished_at = Some(now),
                            ![job].stats = Some([inserted |-> total_inserted,
                                                 conflicts |-> total_conflicts])]
    /\ now' = now + 1
    /\ report' = Some([job_id |-> job,
                       provider |-> prov_rec[1],
                       source |-> sources[src_rec].descriptor,
                       inserted |-> total_inserted,
                       conflicts |-> total_conflicts,
                       reached_until |-> reached_until_flag,
                       last_cursor |-> last_cursor_token,
                       warnings |-> <<>>])
    /\ pc' = "idle"
    /\ UNCHANGED <<providers, sources, authors, posts, locals, raised, runs, fetches,
                   replaying, tape, observed, query_vars, conc_vars, lib_vars>>

Next ==
    \/ \E a \in ArgSets : CollectInvalid(a)
    \/ \E a \in ArgSets, again \in BOOLEAN : CollectStart(a, again)
    \/ FetchAny
    \/ FetchSame
    \/ \E kind \in ErrKinds : FetchRaises(kind)
    \/ Cancel
    \/ Finalize

Spec == Init /\ [][Next]_vars


(***************************************************************************)
(* The per-request limit.  Calls by one source with page_limit below,       *)
(* inside and above [1, 100] and with several budgets, against a provider   *)
(* that always has a further page.                                          *)
(***************************************************************************)
LimitPageLimits == {-1, 0, 1, 2, 100, 101}

LimitLimits == {NONE, Some(1), Some(3)}

LimitArgSets ==
    {[provider |-> "bluesky", source |-> Some(<<"@alice">>), q |-> NONE,
      since_utc |-> NONE, until_utc |-> NONE, page_limit |-> pl, limit |-> l] :
        pl \in LimitPageLimits, l \in LimitLimits}

LimitBatches ==
    {b \in Batches : b.items # <<>> /\ b.next_cursor = Some(<<"c1">>) /\ ~b.reached_until}

CollectAnyPageLimit == \E a \in LimitArgSets : CollectStart(a, FALSE)

FetchNextPage == \E b \in LimitBatches : FetchPage(b)

NextLimits ==
    \/ CollectAnyPageLimit
    \/ FetchNextPage
    \/ Finalize

SpecLimits == Init /\ [][NextLimits]_vars


(***************************************************************************)
(* query("posts", ...) (api.py:462-614).  The id of a Post row is its       *)
(* position in the table.  The keyset token codec (utils/pagination) is not *)
(* among the sources; it is taken from its specification: an opaque token   *)
(* from which decode gives back the (created_at, id) pair encoded.          *)
(***************************************************************************)
EncodeAfterKey(ts, id) == <<"k", ts, id>>

DecodeAfterKey(token) == [created_at |-> token[2], id |-> token[3]]

\* api.py:527-548  ids of the rows the filters keep.  author is taken to be an
\* external id (no "@", not all digits) and contains a whole text.
Matching(ps, auths, qa) ==
    {i \in 1..Len(ps) :
        /\ qa.provider # "" => ps[i].provider = qa.provider
        /\ qa.since_utc # NONE => ps[i].created_at >= qa.since_utc[1]
        /\ qa.until_utc # NONE => ps[i].created_at <= qa.until_utc[1]
        /\ qa.author # NONE => auths[ps[i].author_id].external_id = qa.author[1]
        /\ qa.contains # NONE => ps[i].text = qa.contains[1]}

\* api.py:551  row i comes before row j in (created_at DESC, id DESC)
Precedes(ps, i, j) ==
    \/ ps[i].created_at > ps[j].created_at
    \/ (ps[i].created_at = ps[j].created_at /\ i > j)

RECURSIVE OrderBy(_, _)
OrderBy(ps, S) ==
    IF S = {} THEN <<>>
    ELSE LET first == CHOOSE i \in S : \A j \in S \ {i} : Precedes(ps, i, j)
         IN  <<first>> \o OrderBy(ps, S \ {first})

\* a keyset filter on created_at alone
AfterKeyNoTieBreak(ps, i, k) == ps[i].created_at < k.created_at

\* api.py:556  created_at < k.created_at or (created_at = k.created_at and id < k.id)
AfterKey(ps, i, k) ==
    \/ ps[i].created_at < k.created_at
    \/ (ps[i].created_at = k.created_at /\ i < k.id)

\* a next page announced whenever the page is full
MoreWhenFull(n, limit) == n >= limit

\* api.py:560
More(n, limit) == n > limit

\* api.py:599-611  default projection
RowToDict(ps, i) ==
    [id |-> i, provider |-> ps[i].provider, external_id |-> ps[i].external_id,
     author_id |-> ps[i].author_id, created_at |-> ps[i].created_at, text |-> ps[i].text]

\* api.py:525-614  the page query returns
Query(ps, auths, qa, after_key) ==
    LET filtered == Matching(ps, auths, qa)
        keyset == IF Truthy(after_key)
                  THEN {i \in filtered : AfterKey(ps, i, DecodeAfterKey(after_key[1]))}
                  ELSE filtered
        ordered == OrderBy(ps, keyset)
        rows == SubSeq(ordered, 1, Min(Len(ordered), qa.limit + 1))
        more == More(Len(rows), qa.limit)
        qs_page == SubSeq(rows, 1, Min(Len(rows), qa.limit))
        last == qs_page[Len(qs_page)]
        next_token == IF qs_page = <<>> THEN NONE
                      ELSE IF more THEN Some(EncodeAfterKey(ps[last].created_at, last))
                      ELSE NONE
    IN  [items |-> [n \in 1..Len(qs_page) |-> RowToDict(ps, qs_page[n])],
         next_after_key |-> next_token,
         count |-> Len(qs_page)]

\* the posts collected before the queries: two share a created_at
QueryItems ==
    Items \cup {[external_id |-> "at://post/3", created_at |-> 1, author |-> "did:plc:alice",
                 handle |-> "alice.bsky.social", text |-> "hello"]}

QueryBatches ==
    [items : SeqsUpTo(QueryItems, MaxBatch), next_cursor : {NONE, Some(<<"c1">>)},
     reached_until : {FALSE}]

QueryCollectArgs ==
    [provider |-> "bluesky", source |-> Some(<<"@alice">>), q |-> NONE,
     since_utc |-> NONE, until_utc |-> NONE, page_limit |-> 150, limit |-> NONE]

QueryLimits == {0, 1, 2, 3}

QueryArgSets ==
    [provider : {"", "bluesky"}, since_utc : {NONE}, until_utc : {NONE, Some(1)},
     author : {NONE, Some("did:plc:alice")}, contains : {NONE}, limit : QueryLimits]

\* the store is filled by collect before the first query
SeedCollect == q_page = NONE /\ CollectStart(QueryCollectArgs, FALSE)

SeedPage == \E b \in QueryBatches : FetchPage(b)

\* the first call of a chain: after_key is None
QueryFirst(qa) ==
    /\ pc = "idle"
    /\ LET page == Query(posts, authors, qa, NONE)
       IN  /\ q_page' = Some(page)
           /\ q_seen' = page.items
    /\ q_args' = Some(qa)
    /\ q_after' = NONE
    /\ UNCHANGED <<store, now, collect_vars, conc_vars, lib_vars>>

\* the next call of the chain: after_key is the page's next_after_key
QueryNextPage ==
    /\ pc = "idle"
    /\ q_page # NONE
    /\ q_page[1].next_after_key # NONE
    /\ LET page == Query(posts, authors, q_args[1], q_page[1].next_after_key)
       IN  /\ q_page' = Some(page)
           /\ q_seen' = q_seen \o page.items
    /\ q_after' = q_page[1].next_after_key
    /\ UNCHANGED <<store, now, collect_vars, q_args, conc_vars, lib_vars>>

NextQuery ==
    \/ SeedCollect
    \/ SeedPage
    \/ Finalize
    \/ \E qa \in QueryArgSets : QueryFirst(qa)
    \/ QueryNextPage

SpecQuery == Init /\ [][NextQuery]_vars


(***************************************************************************)
(* Two collect calls side by side on one provider, each on the source or on *)
(* the search term and each fetching one page.  The statements of the       *)
(* prologue (api.py:260-277) and of a page's transaction (api.py:300-369)   *)
(* are the steps; the database serialises statements that touch the same    *)
(* unique key, so each statement acts on the shared tables at once.         *)
(***************************************************************************)
ConcArgs ==
    [provider |-> "bluesky", source |-> Some(<<"@alice">>), q |-> NONE,
     since_utc |-> NONE, until_utc |-> NONE, page_limit |-> 150, limit |-> NONE]

\* the same provider searched for a term
ConcSearchArgs == [ConcArgs EXCEPT !.source = NONE, !.q = Some(<<"term">>)]

ConcArgSets == {ConcArgs, ConcSearchArgs}

\* the single page a call receives
ConcBatches == {b \in Batches : b.next_cursor = NONE /\ ~b.reached_until}

\* models.py:62-63, 96-97, 141-146  inserting rows would break the unique key
UniqueViolation(t, rows, key) ==
    \E i \in 1..Len(rows) :
        \/ SameKey(t, rows[i], key) # {}
        \/ \E j \in 1..(i - 1) : \A f \in key : rows[j][f] = rows[i][f]

\* bulk inserts that let the unique constraint raise
IgnoreConflictsOff == FALSE

\* api.py:320, 368  bulk_create(..., ignore_conflicts=True)
IgnoreConflicts == TRUE

\* api.py:423-427  the call of p ends with the error, its job failed
ConcFail(p, error) ==
    /\ jobs' = [jobs EXCEPT ![procs[p].job].status = "failed",
                            ![procs[p].job].finished_at = Some(now)]
    /\ now' = now + 1
    /\ procs' = [procs EXCEPT ![p].pc = "done", ![p].raised = Some(error)]

\* a Source table without its unique constraint
CreateUnconstrained(t, r, key) == Append(t, r)

\* api.py:262-268, models.py:62-63  the INSERT of get_or_create under the
\* unique key: when the row exists by now the insert fails and get_or_create
\* returns the row that is there
CreateOrGet(t, r, key) == IF SameKey(t, r, key) = {} THEN Append(t, r) ELSE t

\* api.py:260-268  the Provider row, and the lookup get_or_create begins with
\* for the Source row
ConcStart(p, a) ==
    /\ procs[p].pc = "idle"
    /\ LET row == [provider |-> a.provider, descriptor |-> Descriptor(a)]
           found == SameKey(sources, row, SourceKey)
       IN  /\ providers' = providers \cup {a.provider}
           /\ procs' = [procs EXCEPT ![p].pc = "source_create",
                                     ![p].args = Some(a),
                                     ![p].src = IF found = {} THEN 0
                                                ELSE RowId(sources, row, SourceKey)]
    /\ UNCHANGED <<sources, authors, posts, cursors, jobs, now,
                   collect_vars, query_vars, lib_vars>>

\* api.py:262-277  the Source row when the lookup found none, and the FetchJob
ConcSourceCreate(p) ==
    /\ procs[p].pc = "source_create"
    /\ LET a == procs[p].args[1]
           row == [provider |-> a.provider, descriptor |-> Descriptor(a)]
           missed == procs[p].src = 0
           sources1 == IF missed THEN CreateOrGet(sources, row, SourceKey) ELSE sources
       IN  /\ sources' = sources1
           /\ jobs' = Append(jobs, [provider |-> a.provider,
                                    source |-> RowId(sources1, row, SourceKey),
                                    started_at |-> now, finished_at |-> NONE,
                                    status |-> "running", stats |-> NONE])
           /\ procs' = [procs EXCEPT ![p].pc = "fetch",
                                     ![p].src = RowId(sources1, row, SourceKey),
                                     ![p].lost_race =
                                         missed /\ SameKey(sources, row, SourceKey) # {},
                                     ![p].job = Len(jobs) + 1]
    /\ now' = now + 1
    /\ UNCHANGED <<providers, authors, posts, cursors, collect_vars, query_vars, lib_vars>>

\* api.py:297  fetch_since returns the page
ConcFetch(p, b) ==
    /\ procs[p].pc = "fetch"
    /\ procs' = [procs EXCEPT ![p].pc = "authors_lookup", ![p].items = b.items]
    /\ UNCHANGED <<store, now, collect_vars, query_vars, lib_vars>>

\* api.py:302-318  existing_authors, new_authors
ConcAuthorsLookup(p) ==
    /\ procs[p].pc = "authors_lookup"
    /\ LET items == procs[p].items
           keys == {items[i].author : i \in 1..Len(items)}
           existing == ExistingAuthors(authors, ConcArgs.provider, keys)
       IN  procs' = [procs EXCEPT ![p].pc = "authors_insert",
                                  ![p].existing_authors = existing,
                                  ![p].new_authors =
                                      NewAuthors(items, existing, ConcArgs.provider)]
    /\ UNCHANGED <<store, now, collect_vars, query_vars, lib_vars>>

\* api.py:319-327  bulk_create of the new authors, then the map is refreshed
ConcAuthorsInsert(p) ==
    /\ procs[p].pc = "authors_insert"
    /\ LET items == procs[p].items
           keys == {items[i].author : i \in 1..Len(items)}
           new == procs[p].new_authors
           authors1 == BulkCreateAuthors(authors, new)
       IN  IF new = <<>>
           THEN /\ procs' = [procs EXCEPT ![p].pc = "posts_lookup"]
                /\ UNCHANGED <<authors, jobs, now>>
           ELSE IF ~IgnoreConflicts /\ UniqueViolation(authors, new, AuthorKey)
           THEN /\ ConcFail(p, "IntegrityError")
                /\ UNCHANGED authors
           ELSE /\ authors' = authors1
                /\ procs' = [procs EXCEPT ![p].pc = "posts_lookup",
                                          ![p].existing_authors =
                                              ExistingAuthors(authors1, ConcArgs.provider, keys)]
                /\ UNCHANGED <<jobs, now>>
    /\ UNCHANGED <<providers, sources, posts, cursors, collect_vars, query_vars, lib_vars>>

\* api.py:329-333  existing_posts
ConcPostsLookup(p) ==
    /\ procs[p].pc = "posts_lookup"
    /\ LET items == procs[p].items
           ids == {items[i].external_id : i \in 1..Len(items)}
       IN  procs' = [procs EXCEPT ![p].pc = "posts_insert",
                                  ![p].existing_posts =
                                      ExistingPosts(posts, ConcArgs.provider, ids)]
    /\ UNCHANGED <<store, now, collect_vars, query_vars, lib_vars>>

\* api.py:335-369  the scan and the bulk_create of the posts
ConcPostsInsert(p) ==
    /\ procs[p].pc = "posts_insert"
    /\ LET scan == ScanItems(procs[p].items, procs[p].existing_posts,
                             procs[p].existing_authors, NONE, NONE, ConcArgs.provider)
       IN  IF scan.create = <<>>
           THEN /\ procs' = [procs EXCEPT ![p].pc = "finalize",
                                          ![p].conflicts = scan.conflicts]
                /\ UNCHANGED <<posts, jobs, now>>
           ELSE IF ~IgnoreConflicts /\ UniqueViolation(posts, scan.create, PostKey)
           THEN /\ ConcFail(p, "IntegrityError")
                /\ UNCHANGED posts
           ELSE /\ posts' = BulkCreatePosts(posts, scan.create)
                /\ procs' = [procs EXCEPT ![p].pc = "finalize",
                                          ![p].conflicts = scan.conflicts,
                                          ![p].inserted = Len(scan.create)]
                /\ UNCHANGED <<jobs, now>>
    /\ UNCHANGED <<providers, sources, authors, cursors, collect_vars, query_vars, lib_vars>>

\* api.py:395-409  the cursor row and the job, in one transaction
ConcFinalize(p) ==
    /\ procs[p].pc = "finalize"
    /\ cursors' = PersistCursor(cursors, ConcArgs.provider, procs[p].src, NONE)
    /\ jobs' = [jobs EXCEPT ![procs[p].job].status = "succeeded",
                            ![procs[p].job].finished_at = Some(now),
                            ![procs[p].job].stats =
                                Some([inserted |-> procs[p].inserted,
                                      conflicts |-> procs[p].conflicts])]
    /\ now' = now + 1
    /\ procs' = [procs EXCEPT ![p].pc = "done"]
    /\ UNCHANGED <<providers, sources, authors, posts, collect_vars, query_vars, lib_vars>>

NextConcurrent ==
    \/ \E p \in Procs, a \in ConcArgSets : ConcStart(p, a)
    \/ \E p \in Procs : ConcSourceCreate(p)
    \/ \E p \in Procs, b \in ConcBatches : ConcFetch(p, b)
    \/ \E p \in Procs : ConcAuthorsLookup(p)
    \/ \E p \in Procs : ConcAuthorsInsert(p)
    \/ \E p \in Procs : ConcPostsLookup(p)
    \/ \E p \in Procs : ConcPostsInsert(p)
    \/ \E p \in Procs : ConcFinalize(p)

SpecConcurrent == Init /\ [][NextConcurrent]_vars


(***************************************************************************)
(* Pages and failures inside the transactions.  The provider may return a   *)
(* stored post again with another text and another author handle; a         *)
(* database error may be raised inside the page's transaction               *)
(* (api.py:300-369) or inside the finalization's (api.py:396-409).          *)
(***************************************************************************)
EditedItems ==
    Items \cup {[external_id |-> "at://post/1", created_at |-> 1, author |-> "did:plc:alice",
                 handle |-> "alice.example.org", text |-> "hello, edited"]}

PageBatches ==
    [items : SeqsUpTo(EditedItems, MaxBatch), next_cursor : {NONE, Some(<<"c1">>)},
     reached_until : {FALSE}]

PageArgSets ==
    {a \in ArgSets : a.provider = "bluesky" /\ Truthy(a.source) /\ a.q = NONE
                        /\ a.limit = NONE}

CollectPages == \E a \in PageArgSets : CollectStart(a, FALSE)

FetchEdited == \E b \in PageBatches : FetchPage(b)

\* a failed page whose author upserts stay written
PageRaisesAfterAuthors(b) ==
    /\ pc = "loop"
    /\ fetches < MaxFetches
    /\ authors' = AuthorsAfter(authors, b.items, prov_rec[1])
    /\ jobs' = [jobs EXCEPT ![job].status = "failed", ![job].finished_at = Some(now)]
    /\ now' = now + 1
    /\ raised' = Some("DatabaseError")
    /\ pc' = "idle"
    /\ fetch_calls' = fetch_calls + 1
    /\ request_limit' = RequestLimit(page_size, remaining)
    /\ request_cursor' = cursor_token
    /\ fetches' = fetches + 1
    /\ UNCHANGED <<providers, sources, posts, cursors, locals, report, runs,
                   replaying, tape, seen_items, seen_in_window, seen_kept, seen_nonnull,
                   seen_nonempty, fail_kind, pos_before, posts_before, committed,
                   query_vars, conc_vars, lib_vars>>

\* fetch_since returned b and a statement of the page's transaction raised
\* (api.py:300-369): transaction.atomic rolls the page back, the handler of
\* api.py:423-427 marks the job failed and re-raises.
PageRaises(b) ==
    /\ pc = "loop"
    /\ fetches < MaxFetches
    /\ b \in PageBatches
    /\ jobs' = [jobs EXCEPT ![job].status = "failed", ![job].finished_at = Some(now)]
    /\ now' = now + 1
    /\ raised' = Some("DatabaseError")
    /\ pc' = "idle"
    /\ fetch_calls' = fetch_calls + 1
    /\ request_limit' = RequestLimit(page_size, remaining)
    /\ request_cursor' = cursor_token
    /\ fetches' = fetches + 1
    /\ UNCHANGED <<providers, sources, authors, posts, cursors, locals, report, runs,
                   replaying, tape, seen_items, seen_in_window, seen_kept, seen_nonnull,
                   seen_nonempty, fail_kind, pos_before, posts_before, committed,
                   query_vars, conc_vars, lib_vars>>

\* a failure of the finalization that marks the job failed and leaves
\* finished_at unset
FinalizeRaisesNoTimestamp ==
    /\ pc = "finalize"
    /\ jobs' = [jobs EXCEPT ![job].status = "failed"]
    /\ now' = now + 1
    /\ raised' = Some("DatabaseError")
    /\ pc' = "idle"
    /\ UNCHANGED <<providers, sources, authors, posts, cursors, locals, report, runs,
                   fetches, replaying, tape, observed, query_vars, conc_vars, lib_vars>>

\* a statement of the finalization's transaction raised (api.py:396-409):
\* the cursor write is rolled back, the handler marks the job failed.
FinalizeRaises ==
    /\ pc = "finalize"
    /\ jobs' = [jobs EXCEPT ![job].status = "failed", ![job].finished_at = Some(now)]
    /\ now' = now + 1
    /\ raised' = Some("DatabaseError")
    /\ pc' = "idle"
    /\ UNCHANGED <<providers, sources, authors, posts, cursors, locals, report, runs,
                   fetches, replaying, tape, observed, query_vars, conc_vars, lib_vars>>

NextPages ==
    \/ CollectPages
    \/ FetchEdited
    \/ \E b \in PageBatches : PageRaises(b)
    \/ Finalize
    \/ FinalizeRaises

SpecPages == Init /\ [][NextPages]_vars

(***************************************************************************)
(* Calls of the registry.  register and unregister test _REGISTRY and then  *)
(* write it, in two statements with no lock around them                     *)
(* (registry.py:70-74, 92-94): a thread may run between the two.  has,      *)
(* available and resolve read _REGISTRY once.                               *)
(***************************************************************************)
\* everything but the registry
non_registry_vars ==
    <<store, now, collect_vars, query_vars, conc_vars, bluesky_vars, config_vars,
      status_vars>>

\* the record of a call as it begins
Calling(op, name, cls, override) ==
    [IdleThread EXCEPT !.op = op, !.name = Some(name), !.key = Some(Lower(name)),
                       !.cls = cls, !.override = override, !.before = registry]

\* a register that writes the class before it tests it
RegisterCheckStoresFirst(t, name, cls, override) ==
    /\ threads[t].pc = "idle"
    /\ LET key == Lower(name)
           call == Calling("register", name, cls, override)
       IN  IF ~override /\ key \in DOMAIN registry
           THEN /\ threads' = [threads EXCEPT ![t] =
                                   [call EXCEPT !.raised = Some("ValueError")]]
                /\ UNCHANGED registry
           ELSE /\ registry' = Stored(registry, key, cls)
                /\ threads' = [threads EXCEPT ![t] =
                                   IF ~IsProvider(cls)
                                   THEN [call EXCEPT !.raised = Some("TypeError")]
                                   ELSE call]
    /\ UNCHANGED <<made, issued, non_registry_vars>>

\* registry.py:69-73  register(name, provider_cls, override=...): the key and
\* the two tests
RegisterCheck(t, name, cls, override) ==
    /\ threads[t].pc = "idle"
    /\ LET error == RegisterError(registry, Lower(name), cls, override)
           call == Calling("register", name, cls, override)
       IN  threads' = [threads EXCEPT ![t] =
                           IF error # NONE THEN [call EXCEPT !.raised = error]
                           ELSE [call EXCEPT !.pc = "store"]]
    /\ UNCHANGED <<registry, made, issued, non_registry_vars>>

\* registry.py:74  register: the assignment
RegisterStore(t) ==
    /\ threads[t].pc = "store"
    /\ registry' = Stored(registry, threads[t].key[1], threads[t].cls)
    /\ threads' = [threads EXCEPT ![t].pc = "idle"]
    /\ UNCHANGED <<made, issued, non_registry_vars>>

\* registry.py:91-93  unregister(name): the key and the test
UnregisterCheck(t, name) ==
    /\ threads[t].pc = "idle"
    /\ LET call == Calling("unregister", name, "", FALSE)
       IN  threads' = [threads EXCEPT ![t] =
                           IF Lower(name) \notin DOMAIN registry
                           THEN [call EXCEPT !.raised = Some("KeyError")]
                           ELSE [call EXCEPT !.pc = "del"]]
    /\ UNCHANGED <<registry, made, issued, non_registry_vars>>

\* registry.py:94  unregister: the del statement, itself a KeyError when the
\* key is gone by now
UnregisterDel(t) ==
    /\ threads[t].pc = "del"
    /\ IF threads[t].key[1] \in DOMAIN registry
       THEN /\ registry' = Deleted(registry, threads[t].key[1])
            /\ threads' = [threads EXCEPT ![t].pc = "idle"]
       ELSE /\ threads' = [threads EXCEPT ![t].pc = "idle",
                                          ![t].raised = Some("KeyError")]
            /\ UNCHANGED registry
    /\ UNCHANGED <<made, issued, non_registry_vars>>

\* registry.py:121  cls(): the object constructed after n others
Construct(cls, n) == [cls |-> cls, id |-> n + 1]

\* registry.py:116-121  resolve(name)
Resolve(t, name) ==
    /\ threads[t].pc = "idle"
    /\ LET key == Lower(name)
           call == Calling("resolve", name, "", FALSE)
       IN  IF key \notin DOMAIN registry
           THEN /\ threads' = [threads EXCEPT ![t] =
                                   [call EXCEPT !.raised = Some("KeyError")]]
                /\ UNCHANGED <<made, issued>>
           ELSE /\ made < MaxInstances
                /\ threads' = [threads EXCEPT ![t] =
                                   [call EXCEPT !.result =
                                        Some(Construct(registry[key], made))]]
                /\ made' = made + 1
                /\ issued' = issued \cup {Construct(registry[key], made)}
    /\ UNCHANGED <<registry, non_registry_vars>>

\* registry.py:46  has(name)
HasCall(t, name) ==
    /\ threads[t].pc = "idle"
    /\ threads' = [threads EXCEPT ![t] =
                       [Calling("has", name, "", FALSE) EXCEPT
                            !.result = Some(Has(registry, name))]]
    /\ UNCHANGED <<registry, made, issued, non_registry_vars>>

\* registry.py:29  available()
AvailableCall(t) ==
    /\ threads[t].pc = "idle"
    /\ threads' = [threads EXCEPT ![t] =
                       [IdleThread EXCEPT !.op = "available", !.before = registry,
                                          !.result = Some(Available(registry))]]
    /\ UNCHANGED <<registry, made, issued, non_registry_vars>>

\* one caller
NextRegistry ==
    \/ \E name \in Names, cls \in Factories, override \in BOOLEAN :
           RegisterCheck(1, name, cls, override)
    \/ RegisterStore(1)
    \/ \E name \in Names : UnregisterCheck(1, name)
    \/ UnregisterDel(1)
    \/ \E name \in Names : Resolve(1, name)
    \/ \E name \in Names : HasCall(1, name)
    \/ AvailableCall(1)

SpecRegistry == Init /\ [][NextRegistry]_vars

\* the names and classes two threads register and unregister side by side
ThreadNames == {n \in Names : n.base = "dummy" /\ n.shape \in {"lower", "title"}}

ThreadFactories == {"BlueskyProvider", "DummyProvider"}

NextRegistryThreads ==
    \/ \E t \in Threads, name \in ThreadNames, cls \in ThreadFactories,
          override \in BOOLEAN : RegisterCheck(t, name, cls, override)
    \/ \E t \in Threads : RegisterStore(t)
    \/ \E t \in Threads, name \in ThreadNames : UnregisterCheck(t, name)
    \/ \E t \in Threads : UnregisterDel(t)

SpecRegistryThreads == Init /\ [][NextRegistryThreads]_vars

(***************************************************************************)
(* collect on two providers: the built-in one and one that a caller         *)
(* registers, both returning posts of the same author ids.                  *)
(***************************************************************************)
\* the name a collect call passes to resolve
Spelled(provider) == [base |-> provider, shape |-> "lower"]

TwoProviderArgSets ==
    {[ConcArgs EXCEPT !.provider = p] : p \in {"bluesky", "dummy"}}

TwoProviderBatches == {b \in Batches : b.items # <<>> /\ ~b.reached_until}

\* caller: register("dummy", DummyProvider)
RegisterDummy == RegisterCheck(1, Spelled("dummy"), "DummyProvider", FALSE)

\* api.py:240  collect of a provider that resolve finds
CollectResolved ==
    \E a \in TwoProviderArgSets :
        /\ Has(registry, Spelled(a.provider))
        /\ threads[1].pc = "idle"
        /\ CollectStart(a, FALSE)

FetchFromEither == \E b \in TwoProviderBatches : FetchPage(b)

NextProviders ==
    \/ RegisterDummy
    \/ RegisterStore(1)
    \/ CollectResolved
    \/ FetchFromEither
    \/ Finalize

SpecProviders == Init /\ [][NextProviders]_vars




(***************************************************************************)
(* One BlueskyProvider instance at a time: constructed, configured once, as *)
(* collect does (api.py:240-252), then asked for pages.                     *)
(***************************************************************************)
\* everything but the Bluesky provider
non_bluesky_vars ==
    <<store, now, collect_vars, query_vars, conc_vars, registry_vars, config_vars,
      status_vars>>

\* bluesky.py:102-103  identifier and password after the options and the
\* environment were consulted; "" when neither gives one
Credentials == [identifier : {"", "alice.bsky.social"}, password : {"", "app-password"}]

\* answers of com.atproto.server.createSession
LoginResponses ==
    {[status |-> 200, token |-> Some("JWT")], [status |-> 200, token |-> NONE],
     [status |-> 401, token |-> NONE], [status |-> 500, token |-> NONE],
     [status |-> 0, token |-> NONE]}

\* bluesky.py:263-279  _login: the token, or the error it raises
Login(resp) ==
    IF resp.status = 0 THEN [token |-> NONE, error |-> Some("TransportError")]
    ELSE IF resp.status = 401 THEN [token |-> NONE, error |-> Some("InvalidQuery")]
    ELSE IF resp.status >= 400 THEN [token |-> NONE, error |-> Some("HTTPStatusError")]
    ELSE IF resp.token = NONE THEN [token |-> NONE, error |-> Some("InvalidQuery")]
    ELSE [token |-> resp.token, error |-> NONE]

\* a client built without the Authorization header
ClientAuthorizationNever(result) == NONE

\* bluesky.py:106, 114  the Authorization header of the client
ClientAuthorization(result) ==
    IF result.error = NONE THEN Some(<<"Bearer", result.token[1]>>) ELSE NONE

\* bluesky.py:57-67  a new instance
BskyNew ==
    /\ bsky' = NewBluesky
    /\ session' = NONE /\ login' = NONE /\ sent' = <<>> /\ response' = NONE
    /\ bsky_raised' = NONE
    /\ UNCHANGED non_bluesky_vars

\* bluesky.py:69-122  configure(options): the login when both credentials are
\* present, any error of it turned into a warning, then the client
BskyConfigure(cred, resp) ==
    /\ bsky.client = NONE
    /\ LET attempt == cred.identifier # "" /\ cred.password # ""
           result == IF attempt THEN Login(resp)
                     ELSE [token |-> NONE, error |-> Some("no credentials")]
           ok == attempt /\ result.error = NONE
           base_url == IF ok THEN "https://api.bsky.app" ELSE bsky.base_url
           auth_state == IF ok THEN "authenticated" ELSE "anonymous"
           warnings == IF attempt /\ ~ok
                       THEN <<<<"authentication_failed", result.error[1]>>>>
                       ELSE <<>>
       IN  /\ bsky' = [client |-> Some([base_url |-> base_url,
                                        authorization |-> ClientAuthorization(result)]),
                       base_url |-> base_url, auth_state |-> auth_state]
           /\ session' = Some([provider |-> "bluesky", auth_state |-> auth_state,
                               warnings |-> warnings])
           /\ login' = IF attempt THEN Some(resp) ELSE NONE
    /\ bsky_raised' = NONE
    /\ UNCHANGED <<sent, response, non_bluesky_vars>>

\* what fetch_since is asked for: a search, an author feed, or neither
FetchModes == {"search", "author", "neither"}

\* answers to a fetch request
FetchResponses ==
    {[status |-> st, retry_after |-> NONE] : st \in {0, 200, 400, 401, 403, 404, 500, 503}}
        \cup {[status |-> 429, retry_after |-> ra] : ra \in {NONE, Some(30)}}

\* bluesky.py:158-164, 193-194  the error the exchange raises, if any
FetchError(mode, client, resp) ==
    IF resp.status = 0
    THEN Some([kind |-> "TransportError", retry_after_s |-> NONE])
    ELSE IF mode = "search" /\ resp.status = 403 /\ client.authorization = NONE
    THEN Some([kind |-> "InvalidQuery", retry_after_s |-> NONE])
    ELSE IF resp.status >= 400
    THEN Some([kind |-> "HTTPStatusError", retry_after_s |-> NONE])
    ELSE NONE

\* bluesky.py:124-211  fetch_since(cursor, limit, filters)
BskyFetch(mode, resp) ==
    IF bsky.client = NONE
    THEN /\ bsky_raised' = Some([kind |-> "RuntimeError", retry_after_s |-> NONE])
         /\ response' = NONE
         /\ UNCHANGED <<bsky, session, login, sent, non_bluesky_vars>>
    ELSE IF mode = "neither"
    THEN /\ bsky_raised' = Some([kind |-> "InvalidQuery", retry_after_s |-> NONE])
         /\ response' = NONE
         /\ UNCHANGED <<bsky, session, login, sent, non_bluesky_vars>>
    ELSE /\ Len(sent) < MaxRequests
         /\ sent' = Append(sent, [endpoint |-> mode,
                                  base_url |-> bsky.client[1].base_url,
                                  authorization |-> bsky.client[1].authorization])
         /\ response' = Some(resp)
         /\ bsky_raised' = FetchError(mode, bsky.client[1], resp)
         /\ UNCHANGED <<bsky, session, login, non_bluesky_vars>>

NextBluesky ==
    \/ BskyNew
    \/ \E cred \in Credentials, resp \in LoginResponses : BskyConfigure(cred, resp)
    \/ \E mode \in FetchModes, resp \in FetchResponses : BskyFetch(mode, resp)

SpecBluesky == Init /\ [][NextBluesky]_vars


(***************************************************************************)
(* configure(db_url) (api.py:47-150).  A db_url is the sequence of its      *)
(* parts, "://" and the "/" that follows it being parts of their own.       *)
(***************************************************************************)
\* everything but the runtime configuration
non_config_vars ==
    <<store, now, collect_vars, query_vars, conc_vars, registry_vars, bluesky_vars,
      status_vars>>

\* nothing, the empty string, native paths, the two sqlite URL forms, a sqlite
\* URL of neither form, URLs of other backends
DbUrls ==
    {NONE, Some(<<>>), Some(<<":memory:">>), Some(<<"./sonec.sqlite3">>),
     Some(<<"sqlite", "://", ":memory:">>),
     Some(<<"sqlite", "://", "/", "./sonec.sqlite3">>),
     Some(<<"sqlite", "://", "sonec.sqlite3">>),
     Some(<<"postgres", "://", "host/sonec">>),
     Some(<<"mysql", "://", "host/sonec">>)}

\* api.py:75  database_name.startswith("sqlite://")
StartsWithSqlite(name) == Len(name) >= 2 /\ name[1] = "sqlite" /\ name[2] = "://"

\* api.py:82  "://" in database_name
HasScheme(name) == \E i \in 1..Len(name) : name[i] = "://"

\* api.py:81  database_name.replace("sqlite:///", "")
RECURSIVE WithoutSqlitePrefix(_)
WithoutSqlitePrefix(name) ==
    IF name = <<>> THEN <<>>
    ELSE IF Len(name) >= 3 /\ StartsWithSqlite(name) /\ name[3] = "/"
    THEN WithoutSqlitePrefix(SubSeq(name, 4, Len(name)))
    ELSE <<Head(name)>> \o WithoutSqlitePrefix(Tail(name))

\* api.py:70-84  the database name for db_url, or the error raised
DatabaseName(db_url) ==
    LET name == IF ~Truthy(db_url) THEN <<":memory:">> ELSE db_url[1]
    IN  IF StartsWithSqlite(name)
        THEN [name |-> IF name = <<"sqlite", "://", ":memory:">> THEN <<":memory:">>
                       ELSE WithoutSqlitePrefix(name),
              error |-> NONE]
        ELSE IF HasScheme(name) THEN [name |-> name, error |-> Some("ValueError")]
        ELSE [name |-> name, error |-> NONE]

\* api.py:68, 124  RuntimeInfo
RuntimeInfo(name) == [backend |-> "sqlite", database |-> name, initialized |-> TRUE]

\* api.py:47-150  configure(db_url)
Configure(db_url) ==
    /\ pc = "idle"
    /\ cfg_call' = Some(db_url)
    /\ IF settings.configured
       THEN /\ cfg_result' = Some(RuntimeInfo(settings.database[1]))
            /\ cfg_raised' = NONE
            /\ UNCHANGED settings
       ELSE LET d == DatabaseName(db_url)
            IN  IF d.error # NONE
                THEN /\ cfg_raised' = d.error
                     /\ cfg_result' = NONE
                     /\ UNCHANGED settings
                ELSE /\ settings' = Configured(d.name)
                     /\ cfg_result' = Some(RuntimeInfo(d.name))
                     /\ cfg_raised' = NONE
    /\ UNCHANGED non_config_vars

\* the collect calls made once the runtime is configured
RuntimeArgSets == ConcArgSets

RuntimeBatches ==
    {b \in Batches : Len(b.items) <= 1 /\ b.next_cursor = NONE /\ ~b.reached_until}

\* api.py:228-231  collect needs configured settings
CollectConfigured ==
    \E a \in RuntimeArgSets : settings.configured /\ CollectStart(a, FALSE)

FetchOnePage == \E b \in RuntimeBatches : FetchPage(b)

NextConfigure ==
    \/ \E db_url \in DbUrls : Configure(db_url)
    \/ CollectConfigured
    \/ FetchOnePage
    \/ Finalize

SpecConfigure == InitUnconfigured /\ [][NextConfigure]_vars


(***************************************************************************)
(* status(provider, source, limit_jobs) (api.py:617-680), called between    *)
(* the steps of collect calls, as another process on the same database may. *)
(***************************************************************************)
\* everything but the calls of status
non_status_vars ==
    <<store, now, collect_vars, query_vars, conc_vars, registry_vars, bluesky_vars,
      config_vars>>

\* provider "" stands for None; @bob was never collected
StatusArgSets ==
    [provider : {"", "bluesky"},
     source : {NONE, Some(<<"@alice">>), Some(<<"search:", "term">>), Some(<<"@bob">>)},
     limit_jobs : {0, 1, 2}]

\* api.py:645-648, 662-665  ids of the rows of table t (cursors or jobs) that
\* the filters keep
Filtered(t, srcs, a) ==
    {i \in 1..Len(t) :
        /\ a.provider # "" => t[i].provider = a.provider
        /\ Truthy(a.source) => srcs[t[i].source].descriptor = a.source[1]}

\* the orderings of the elements of S
RECURSIVE Perms(_)
Perms(S) ==
    IF S = {} THEN {<<>>}
    ELSE UNION {{<<x>> \o o : o \in Perms(S \ {x})} : x \in S}

\* jobs listed oldest first
OldestFirst(js, J) ==
    {o \in Perms(J) : \A n \in 1..(Len(o) - 1) :
        js[o[n]].started_at <= js[o[n + 1]].started_at}

\* api.py:677  order_by("-started_at"): the orders the database may return
\* the jobs J in
RecentFirst(js, J) ==
    {o \in Perms(J) : \A n \in 1..(Len(o) - 1) :
        js[o[n]].started_at >= js[o[n + 1]].started_at}

\* the order of str on the descriptors of the model
DescriptorRank(d) == IF d[1] = "@alice" THEN 1 ELSE IF d[1] = "@bob" THEN 2 ELSE 3

\* api.py:658  order_by("provider__name", "source__descriptor")
ByDescriptor(cs, srcs, C) ==
    {o \in Perms(C) : \A n \in 1..(Len(o) - 1) :
        DescriptorRank(srcs[cs[o[n]].source].descriptor)
            <= DescriptorRank(srcs[cs[o[n + 1]].source].descriptor)}

\* api.py:677  [:limit_jobs]
Slice(seq, n) == SubSeq(seq, 1, Min(n, Len(seq)))

\* api.py:650-657  a cursor of the snapshot
CursorDict(cs, srcs, i) ==
    [provider |-> cs[i].provider, source |-> srcs[cs[i].source].descriptor,
     cursor |-> cs[i].position]

\* api.py:667-676  a job of the snapshot
JobDict(js, srcs, i) ==
    [id |-> i, provider |-> js[i].provider, source |-> srcs[js[i].source].descriptor,
     started_at |-> js[i].started_at, finished_at |-> js[i].finished_at,
     status |-> js[i].status,
     stats |-> IF js[i].stats = NONE THEN <<>> ELSE js[i].stats[1]]

\* api.py:617-680  status(provider=..., source=..., limit_jobs=...)
Status(a) ==
    /\ status_args' = Some(a)
    /\ IF ~settings.configured
       THEN /\ status_raised' = Some("RuntimeError")
            /\ snapshot' = NONE /\ status_read' = NONE
       ELSE /\ status_raised' = NONE
            /\ status_read' = Some([jobs |-> jobs, sources |-> sources,
                                    cursors |-> cursors])
            /\ \E co \in ByDescriptor(cursors, sources, Filtered(cursors, sources, a)),
                  jo \in RecentFirst(jobs, Filtered(jobs, sources, a)) :
                   snapshot' =
                       Some([cursors |-> [n \in 1..Len(co) |->
                                             CursorDict(cursors, sources, co[n])],
                             jobs |-> [n \in 1..Len(Slice(jo, a.limit_jobs)) |->
                                          JobDict(jobs, sources, jo[n])]])
    /\ UNCHANGED non_status_vars

NextStatus ==
    \/ CollectConfigured
    \/ FetchOnePage
    \/ Finalize
    \/ \E a \in StatusArgSets : Status(a)

SpecStatus == Init /\ [][NextStatus]_vars


(***************************************************************************)
(* Runs of one caller against a provider that may answer anything: calls    *)
(* by one source, with or without an upper bound and a budget of one item,  *)
(* any batch (empty, with a repeated item, with a null, empty or non-null   *)
(* next_cursor, with or without reached_until), and failures of             *)
(* fetch_since, of the page's transaction and of the finalization's.        *)
(***************************************************************************)
RunArgSets ==
    {a \in ArgSets : /\ a.provider = "bluesky" /\ Truthy(a.source) /\ a.q = NONE
                     /\ a.since_utc = NONE /\ a.limit # Some(0)}

CollectRun == \E a \in RunArgSets : CollectStart(a, FALSE)

FetchRun == \E b \in Batches : FetchPage(b)

FetchRunRaises == FetchRaises("RateLimited")

PageRunRaises == \E b \in PageBatches : PageRaises(b)

NextRuns ==
    \/ CollectRun
    \/ FetchRun
    \/ FetchRunRaises
    \/ PageRunRaises
    \/ Finalize
    \/ FinalizeRaises

SpecRuns == Init /\ [][NextRuns]_vars


(***************************************************************************)
(* The paging loop against a provider whose every fetch_since call returns. *)
(* Calls with no budget and with budgets small enough for the bound on the  *)
(* calls of a behaviour to let the first run go on to its end; weak         *)
(* fairness of the provider's answer says that a call made does return.     *)
(***************************************************************************)
LoopArgSets ==
    {[a EXCEPT !.limit = l] :
        a \in RunArgSets, l \in {NONE} \cup {Some(n) : n \in 1..MaxFetches}}

CollectLoop == \E a \in LoopArgSets : CollectStart(a, FALSE)

NextLoop ==
    \/ CollectLoop
    \/ FetchRun
    \/ Finalize

SpecLoop == Init /\ [][NextLoop]_vars /\ WF_vars(FetchRun)


(***************************************************************************)
(* collect with a Bluesky provider and credentials.  The call resolves a    *)
(* new provider instance (api.py:240), configures it with the options       *)
(* built from extras["auth"] (api.py:242-253), the provider logging in when  *)
(* both credentials are there, and then goes on with the bounds, the rows   *)
(* and the paging loop.  The three parts are steps of the one call: no      *)
(* other call runs between them.                                            *)
(***************************************************************************)
\* api.py:240  impl = resolve_provider(provider)
CollectResolve == pc = "idle" /\ runs < MaxRuns /\ bsky.client # NONE /\ BskyNew

\* api.py:242-253  session = impl.configure(options)
CollectConfigure ==
    \E cred \in Credentials, resp \in LoginResponses :
        pc = "idle" /\ runs < MaxRuns /\ BskyConfigure(cred, resp)

\* api.py:255-289  the rest of the call up to the head of the paging loop
CollectSession ==
    \E a \in RuntimeArgSets : session # NONE /\ CollectStart(a, FALSE)

NextSession ==
    \/ CollectResolve
    \/ CollectConfigure
    \/ CollectSession
    \/ FetchOnePage
    \/ Finalize

SpecSession == Init /\ [][NextSession]_vars


(***************************************************************************)
(* Calls that collect rejects before it opens a FetchJob (api.py:236-256):  *)
(* an invalid combination of provider, source and q, a provider name that   *)
(* resolve does not find, a bound that parse_utc cannot read.  Times are    *)
(* counted from 0 in the model; Malformed stands for a string that          *)
(* datetime.fromisoformat rejects.                                          *)
(***************************************************************************)
Malformed == Some(-1)

\* utils/time.py:41-45  parse_utc(value) raises ValueError
ParseUtcFails(value) == value = Malformed

RejectArgSets ==
    {[provider |-> p, source |-> src, q |-> q, since_utc |-> w[1], until_utc |-> w[2],
      page_limit |-> 150, limit |-> NONE] :
        p \in {"", "bluesky", "dummy"}, src \in SourceArgs, q \in QArgs,
        w \in {<<NONE, NONE>>, <<Some(2), NONE>>, <<Malformed, NONE>>,
               <<NONE, Malformed>>}}

\* api.py:240, registry.py:116-119  resolve_provider(provider) raises KeyError
CollectUnresolved(a) ==
    /\ pc = "idle"
    /\ runs < MaxRuns
    /\ ~InvalidArgs(a)
    /\ ~Has(registry, Spelled(a.provider))
    /\ runs' = runs + 1
    /\ args' = Some(a)
    /\ job' = 0
    /\ report' = NONE
    /\ raised' = Some("KeyError")
    /\ fail_kind' = NONE
    /\ UNCHANGED <<store, now, pc, prov_rec, src_rec, since_dt, until_dt,
                   counters, page_size, fetches, replaying, tape, fetch_calls,
                   seen_items, seen_in_window, seen_kept, seen_nonnull,
                   seen_nonempty, request_limit, request_cursor, pos_before,
                   posts_before, committed, query_vars, conc_vars, lib_vars>>

\* a call that creates the Provider and Source rows before it reads the bounds
CollectMalformedAfterRows(a) ==
    /\ pc = "idle"
    /\ runs < MaxRuns
    /\ ~InvalidArgs(a)
    /\ Has(registry, Spelled(a.provider))
    /\ ParseUtcFails(a.since_utc) \/ ParseUtcFails(a.until_utc)
    /\ providers' = providers \cup {a.provider}
    /\ sources' = GetOrCreate(sources,
                      [provider |-> a.provider, descriptor |-> Descriptor(a)], SourceKey)
    /\ runs' = runs + 1
    /\ args' = Some(a)
    /\ job' = 0
    /\ report' = NONE
    /\ raised' = Some("ValueError")
    /\ fail_kind' = NONE
    /\ UNCHANGED <<authors, posts, cursors, jobs, now, pc, prov_rec, src_rec,
                   since_dt, until_dt,
                   counters, page_size, fetches, replaying, tape, fetch_calls,
                   seen_items, seen_in_window, seen_kept, seen_nonnull,
                   seen_nonempty, request_limit, request_cursor, pos_before,
                   posts_before, committed, query_vars, conc_vars, lib_vars>>

\* api.py:255-256  parse_utc(since_utc) or parse_utc(until_utc) raises
\* ValueError, after the provider was resolved and configured
CollectMalformed(a) ==
    /\ pc = "idle"
    /\ runs < MaxRuns
    /\ ~InvalidArgs(a)
    /\ Has(registry, Spelled(a.provider))
    /\ ParseUtcFails(a.since_utc) \/ ParseUtcFails(a.until_utc)
    /\ runs' = runs + 1
    /\ args' = Some(a)
    /\ job' = 0
    /\ report' = NONE
    /\ raised' = Some("ValueError")
    /\ fail_kind' = NONE
    /\ UNCHANGED <<store, now, pc, prov_rec, src_rec, since_dt, until_dt,
                   counters, page_size, fetches, replaying, tape, fetch_calls,
                   seen_items, seen_in_window, seen_kept, seen_nonnull,
                   seen_nonempty, request_limit, request_cursor, pos_before,
                   posts_before, committed, query_vars, conc_vars, lib_vars>>

\* api.py:236-289  a call that passes the three tests
CollectAccepted ==
    \E a \in RejectArgSets :
        /\ Has(registry, Spelled(a.provider))
        /\ ~ParseUtcFails(a.since_utc) /\ ~ParseUtcFails(a.until_utc)
        /\ CollectStart(a, FALSE)

NextRejected ==
    \/ \E a \in RejectArgSets : CollectInvalid(a)
    \/ \E a \in RejectArgSets : CollectUnresolved(a)
    \/ \E a \in RejectArgSets : CollectMalformed(a)
    \/ CollectAccepted
    \/ FetchOnePage
    \/ Finalize

SpecRejected == Init /\ [][NextRejected]_vars


(***************************************************************************)
(* Properties                                                               *)
(***************************************************************************)
\* the last collect call ended by returning its report
Returned == pc = "idle" /\ report # NONE

\* C1: in every reachable state no two Post rows share (provider, external_id),
\* whether a batch repeats an external_id, a later page repeats an earlier
\* one, or a later call returns posts already stored.
PostsUniqueByExternalId ==
    \A i, j \in 1..Len(posts) :
        (posts[i].provider = posts[j].provider
            /\ posts[i].external_id = posts[j].external_id) => i = j

\* a call that received the same external_id twice in one batch and stored one row
DuplicateInBatchStoredOnce ==
    /\ Returned
    /\ fetch_calls = 1 /\ seen_in_window = 2 /\ Cardinality(seen_kept) = 1
    /\ Len(posts) = 1

\* C2: when collect returns, inserted + conflicts is the number of items the
\* provider returned in this run whose created_at lies in [since_utc, until_utc].
InsertedPlusConflictsIsInWindowCount ==
    Returned => report[1].inserted + report[1].conflicts = seen_in_window

\* a returned run that inserted, hit a conflict and skipped an item outside the window
MixedRunReturned ==
    /\ Returned
    /\ report[1].inserted >= 1 /\ report[1].conflicts >= 1
    /\ seen_items > seen_in_window

OpenedJobIsClosedAtEnd ==
    (pc = "idle" /\ job # 0) =>
        /\ jobs[job].status # "running"
        /\ jobs[job].finished_at # NONE
        /\ report # NONE => jobs[job].status = "succeeded"
        /\ raised # NONE => jobs[job].status = "failed"

\* C5: if fetch_since raises on a page, collect raises that same error, the
\* run's job ends failed, and every post committed by the earlier pages is
\* still stored.
FetchErrorFailsJobKeepsPages ==
    (pc = "idle" /\ fail_kind # NONE) =>
        /\ raised = fail_kind
        /\ report = NONE
        /\ jobs[job].status = "failed"
        /\ jobs[job].finished_at # NONE
        /\ Len(committed) <= Len(posts)
        /\ \A i \in 1..Len(committed) : posts[i] = committed[i]

\* a run whose first page inserted posts and whose second fetch_since call raised
SecondPageRaised ==
    /\ pc = "idle" /\ fail_kind # NONE
    /\ fetch_calls = 2
    /\ Len(committed) > Len(posts_before)

\* C6: a collect repeated with the same arguments against a provider that
\* returns the same batches reports inserted = 0 and conflicts = the number of
\* in-window items returned, and leaves the Post table as the first run left it.
RepeatedCollectOnlyConflicts ==
    (Returned /\ replaying) =>
        /\ report[1].inserted = 0
        /\ report[1].conflicts = seen_in_window
        /\ posts = posts_before

\* a repeated run that was handed two in-window items and returned
RepeatedCollectReturned ==
    /\ Returned /\ replaying
    /\ seen_in_window = 2

OnlyWindowPostsInserted ==
    /\ [][\A i \in (Len(posts) + 1)..Len(posts') :
            WithinBounds(posts'[i].created_at, since_dt, until_dt)]_vars
    /\ [](\A e \in seen_kept : \E i \in 1..Len(posts) : posts[i].external_id = e)

\* a run with since_utc = 2 that skipped an older post and inserted the post
\* whose created_at is 2
BoundaryPostKept ==
    /\ since_dt = Some(2)
    /\ seen_items > seen_in_window
    /\ \E i \in (Len(posts_before) + 1)..Len(posts) : posts[i].created_at = 2

LimitZeroFetchesNothing ==
    (Returned /\ args[1].limit = Some(0)) =>
        /\ fetch_calls = 0
        /\ report[1].inserted = 0
        /\ report[1].conflicts = 0
        /\ jobs[job].status = "succeeded"

\* a call with limit = 0 that returned over a store already holding posts
LimitZeroReturned ==
    /\ Returned /\ args[1].limit = Some(0)
    /\ posts # <<>>


\* C12: after fetch_since returns a batch with zero items, collect issues no
\* further fetch_since call in that run, whatever the batch's next_cursor and
\* the budget left: the loop is left, and once left no call is made.
EmptyBatchEndsPaging ==
    /\ [][(fetch_calls' = fetch_calls + 1 /\ fail_kind' = NONE /\ seen_items' = seen_items)
            => pc' = "finalize"]_vars
    /\ [][pc = "finalize" => fetch_calls' = fetch_calls]_vars

\* the first batch was empty, carried a cursor, and the budget was not used up
EmptyBatchWithCursorSeen ==
    /\ pc = "finalize"
    /\ fetch_calls = 1 /\ seen_items = 0
    /\ seen_nonempty # NONE /\ remaining > 0

\* C13: a collect call without a provider, with both source and q, or with
\* neither fails with ValueError (the code's InvalidArgument) before anything is
\* written; a call that goes on has a provider and exactly one of source and q.
InvalidCallsAreRejected ==
    [][runs' = runs + 1 =>
        \/ /\ raised' = Some("ValueError") /\ report' = NONE
           /\ pc' = "idle" /\ store' = store
        \/ /\ raised' = NONE
           /\ args'[1].provider # ""
           /\ Truthy(args'[1].source) # Truthy(args'[1].q)
           /\ Len(jobs') = Len(jobs) + 1]_vars

\* a valid call followed by a rejected one
InvalidCallRejected ==
    /\ pc = "idle" /\ raised = Some("ValueError")
    /\ runs = 2 /\ Len(jobs) = 1

\* C19: when the host's cancellation reaches a run between two pages, the
\* loop stops without another fetch, the job is finalized as failed and the
\* pages already committed remain stored.
CancelBetweenPagesFailsJob ==
    (pc = "idle" /\ raised = Some("KeyboardInterrupt") /\ fetch_calls >= 1) =>
        /\ jobs[job].status = "failed"
        /\ jobs[job].finished_at # NONE
        /\ posts = committed

\* C20: collect never retries a provider call: fetch_since is called once per
\* page, and once a call has raised the run is over with that error and no
\* further call is made.
NoRetryAfterProviderError ==
    /\ [](fail_kind # NONE => (pc = "idle" /\ raised = fail_kind /\ report = NONE))
    /\ [][fetch_calls' > fetch_calls =>
            /\ fetch_calls' = fetch_calls + 1
            /\ fail_kind' # NONE \/ replaying \/ Len(tape') = Len(tape) + 1]_vars
    /\ [][fail_kind # NONE /\ fail_kind' # NONE => fetch_calls' = fetch_calls]_vars

\* a second fetch_since call raised RateLimited with a cursor and budget in hand
RateLimitedOnSecondPage ==
    /\ fail_kind = Some("RateLimited")
    /\ fetch_calls = 2 /\ cursor_token # NONE /\ remaining > 0


\* C11: every fetch_since call made by collect passes a limit between 1 and
\* 100, namely min(clamp(page_limit, 1, 100), remaining), for any page_limit
\* and any positive remaining.
RequestLimitIsClampedPageLimit ==
    [][fetch_calls' = fetch_calls + 1 =>
        LET pl == args[1].page_limit
            clamp == IF pl < 1 THEN 1 ELSE IF pl > 100 THEN 100 ELSE pl
        IN  /\ remaining > 0
            /\ request_limit' \in 1..100
            /\ request_limit' = (IF clamp < remaining THEN clamp ELSE remaining)]_vars

\* a call with page_limit = 0 and no limit asked the provider for one item
PageLimitZeroAsksForOne ==
    /\ fetch_calls = 1
    /\ args[1].page_limit = 0 /\ args[1].limit = NONE
    /\ request_limit = 1


\* C14: over a fixed Post table and for any filter, the pages obtained from
\* query(after_key = None, limit = n >= 1) by chaining next_after_key until it
\* is null hold every matching row exactly once, in (created_at DESC, id DESC)
\* order, also when rows share a created_at.
QuerySweepReturnsEachRowOnce ==
    (q_args # NONE /\ q_args[1].limit >= 1) =>
        LET ids == {q_seen[n].id : n \in 1..Len(q_seen)}
        IN  /\ \A m, n \in 1..Len(q_seen) : m < n =>
                  \/ q_seen[m].created_at > q_seen[n].created_at
                  \/ (q_seen[m].created_at = q_seen[n].created_at
                        /\ q_seen[m].id > q_seen[n].id)
            /\ ids \subseteq Matching(posts, authors, q_args[1])
            /\ q_page[1].next_after_key = NONE => ids = Matching(posts, authors, q_args[1])

\* a chain of three one-row pages that ended, two of the rows sharing a created_at
SweepOverTiesEnded ==
    /\ q_args # NONE /\ q_args[1].limit = 1
    /\ q_page[1].next_after_key = NONE
    /\ Len(q_seen) = 3
    /\ \E m, n \in 1..Len(q_seen) : m # n /\ q_seen[m].created_at = q_seen[n].created_at

\* C15 as stated: for every limit, 0 included, query returns a non-null
\* next_after_key exactly when a matching row exists beyond the returned page,
\* and a non-null key encodes (created_at, id) of the page's last row.
NextKeyIffRowsBeyond ==
    q_page # NONE =>
        LET page == q_page[1]
            beyond == {i \in Matching(posts, authors, q_args[1]) :
                         /\ \A n \in 1..Len(page.items) : page.items[n].id # i
                         /\ q_after # NONE => AfterKey(posts, i, DecodeAfterKey(q_after[1]))}
        IN  /\ page.next_after_key # NONE <=> beyond # {}
            /\ page.next_after_key # NONE =>
                  /\ page.count >= 1
                  /\ page.next_after_key =
                        Some(EncodeAfterKey(page.items[page.count].created_at,
                                            page.items[page.count].id))

\* C15 for limit >= 1: query returns a non-null next_after_key exactly when a
\* matching row exists beyond the returned page, and then it encodes
\* (created_at, id) of the page's last row; with limit = 0 the page is empty
\* and next_after_key is null.
NextKeyIffRowsBeyondFullPage ==
    q_page # NONE =>
        LET page == q_page[1]
            beyond == {i \in Matching(posts, authors, q_args[1]) :
                         /\ \A n \in 1..Len(page.items) : page.items[n].id # i
                         /\ q_after # NONE => AfterKey(posts, i, DecodeAfterKey(q_after[1]))}
        IN  /\ q_args[1].limit >= 1 => (page.next_after_key # NONE <=> beyond # {})
            /\ q_args[1].limit = 0 => (page.next_after_key = NONE /\ page.count = 0)
            /\ page.next_after_key # NONE =>
                  /\ page.count >= 1
                  /\ page.next_after_key =
                        Some(EncodeAfterKey(page.items[page.count].created_at,
                                            page.items[page.count].id))

\* a second page, reached by its after_key, that is followed by more
SecondPageWithMore ==
    /\ q_page # NONE /\ q_after # NONE
    /\ q_page[1].count = 1 /\ q_page[1].next_after_key # NONE


\* C16: two collect calls running side by side on the same (provider, source)
\* and receiving overlapping posts both complete without a uniqueness error,
\* and under every interleaving the store holds exactly one Post row per
\* (provider, external_id).
ConcurrentCollectsKeepPostsUnique ==
    /\ \A p \in Procs : procs[p].raised = NONE
    /\ \A i, j \in 1..Len(posts) :
          (posts[i].provider = posts[j].provider
              /\ posts[i].external_id = posts[j].external_id) => i = j
    /\ (\A p \in Procs : procs[p].pc = "done") =>
          /\ \A p \in Procs : jobs[procs[p].job].status = "succeeded"
          /\ \A p \in Procs : \A n \in 1..Len(procs[p].items) :
                Cardinality({i \in 1..Len(posts) :
                    posts[i].external_id = procs[p].items[n].external_id}) = 1

\* both calls are over, each passed the dedup lookup for the same post and
\* counted it as inserted, and one row is stored
BothCallsInsertedSamePost ==
    /\ \A p \in Procs : procs[p].pc = "done"
    /\ procs[1].args = Some(ConcArgs) /\ procs[2].args = Some(ConcArgs)
    /\ procs[1].inserted = 1 /\ procs[2].inserted = 1
    /\ Len(posts) = 1


\* C17: persistence is atomic per page and at finalization.  The authors and
\* posts change only when a page commits, and then every author of the page
\* and every in-window post of the page is stored; the cursor changes only in
\* the step that makes the job succeeded, and a succeeded job has its run's
\* cursor stored.
PagesAndFinalizationAreAtomic ==
    /\ [][(authors' # authors \/ posts' # posts) =>
            /\ Len(tape') = Len(tape) + 1
            /\ raised' = NONE
            /\ LET items == tape'[Len(tape')].items
               IN  \A n \in 1..Len(items) :
                     /\ \E i \in 1..Len(authors') :
                            authors'[i].external_id = items[n].author
                     /\ WithinBounds(items[n].created_at, since_dt, until_dt) =>
                            \E i \in 1..Len(posts') :
                                posts'[i].external_id = items[n].external_id]_vars
    /\ [][cursors' # cursors =>
            (jobs[job].status = "running" /\ jobs'[job].status = "succeeded")]_vars
    /\ []((job # 0 /\ jobs[job].status = "succeeded") =>
            /\ SameKey(cursors, [provider |-> prov_rec[1], source |-> src_rec],
                       CursorKey) # {}
            /\ StoredCursor(cursors, prov_rec[1], src_rec) =
                  (IF last_cursor_token # NONE THEN last_cursor_token ELSE pos_before))

\* a run committed a page with a new author, and its second page failed
\* inside the transaction
SecondPageRolledBack ==
    /\ pc = "idle" /\ raised = Some("DatabaseError")
    /\ fetch_calls = 2 /\ Len(tape) = 1
    /\ Len(posts) > Len(posts_before) /\ posts = committed
    /\ jobs[job].status = "failed"

\* C18: collect never modifies a stored Post or Author row.  A post already
\* stored that is returned again, its text changed, is counted as a conflict
\* and its row is unchanged; an author already stored who reappears with
\* another handle keeps the stored row.
StoredRowsAreNeverRewritten ==
    /\ [][/\ Len(posts') >= Len(posts)
          /\ \A i \in 1..Len(posts) : posts'[i] = posts[i]
          /\ Len(authors') >= Len(authors)
          /\ \A i \in 1..Len(authors) : authors'[i] = authors[i]]_vars
    /\ [][Len(tape') = Len(tape) + 1 =>
            LET items == tape'[Len(tape')].items
            IN  total_conflicts' - total_conflicts =
                    Cardinality({n \in 1..Len(items) :
                        /\ WithinBounds(items[n].created_at, since_dt, until_dt)
                        /\ \E i \in 1..Len(posts) :
                              posts[i].external_id = items[n].external_id})]_vars

\* post/1 was stored by the first page and came back on the second with
\* another text and another author handle; the run counted one conflict
EditedPostCameBack ==
    /\ Returned /\ Len(tape) = 2
    /\ report[1].conflicts = 1
    /\ Len(posts) = 1 /\ Len(authors) = 1
    /\ tape[2].items[1].external_id = posts[1].external_id
    /\ tape[2].items[1].text # posts[1].text
    /\ tape[2].items[1].handle # authors[1].handle


\* the name of the call of thread t is registered, in some letter case, in reg
Registered(reg, t) == \E k \in DOMAIN reg : k.base = threads[t].name[1].base

\* C21: a register call that fails leaves the registry exactly as it found it.
\* Registering a name that is already registered (in any letter case) without
\* override fails with ValueError (AlreadyRegistered); registering a class
\* that does not derive from Provider always fails, with TypeError
\* (TypeMismatch) whenever the duplicate test does not fire first, override
\* included; no other register call fails.
FailedRegisterChangesNothing ==
    LET c == threads[1]
        duplicate == Registered(c.before, 1) /\ ~c.override
    IN  (c.op = "register" /\ c.pc = "idle") =>
            /\ duplicate => c.raised = Some("ValueError")
            /\ (~duplicate /\ c.cls = "NotAProvider") => c.raised = Some("TypeError")
            /\ (~duplicate /\ c.cls # "NotAProvider") => c.raised = NONE
            /\ c.raised # NONE => registry = c.before

\* a class that is no Provider was refused for a registered name with override
OverrideWithNonProviderRefused ==
    LET c == threads[1]
    IN  /\ c.op = "register" /\ c.pc = "idle"
        /\ c.override /\ c.cls = "NotAProvider"
        /\ Registered(c.before, 1)
        /\ c.name[1].shape = "upper"
        /\ c.raised = Some("TypeError")
        /\ DOMAIN c.before # DOMAIN BuiltinRegistry


\* seq lists lower-cased names in the strict order of str
SortedNames(seq) ==
    /\ \A i \in 1..Len(seq) : seq[i].shape = "lower"
    /\ \A i \in 1..Len(seq), j \in 1..Len(seq) :
           i < j => StrRank(seq[i]) < StrRank(seq[j])

\* the spellings of the name of the call of thread t
Spellings(t) == {n \in Names : n.base = threads[t].name[1].base}

\* C22: once register(name, F) has succeeded, has says true and resolve finds
\* F for every spelling of the name, and available lists the lower-cased name
\* in sorted order; resolve constructs an instance it has not returned before;
\* once unregister(name) has succeeded, has says false for every spelling;
\* has, resolve and unregister answer by whether the name is registered in
\* any letter case, resolve and unregister of a name that is not registered
\* failing with KeyError (NotRegistered).
RegistryIsCaseInsensitive ==
    /\ [][(threads[1].pc = "store" /\ threads'[1].pc = "idle") =>
              /\ \A n \in Spellings(1) :
                     /\ Has(registry', n)
                     /\ registry'[[n EXCEPT !.shape = "lower"]] = threads[1].cls
              /\ \E i \in 1..Len(Available(registry')) :
                     /\ Available(registry')[i].base = threads[1].name[1].base
                     /\ Available(registry')[i].shape = "lower"
              /\ SortedNames(Available(registry'))]_vars
    /\ [][(threads[1].pc = "del" /\ threads'[1].pc = "idle") =>
              \A n \in Spellings(1) : ~Has(registry', n)]_vars
    /\ [][made' # made =>
              /\ threads'[1].result[1] \notin issued
              /\ threads'[1].result[1].cls =
                     registry[[threads'[1].name[1] EXCEPT !.shape = "lower"]]]_vars
    /\ [](LET c == threads[1]
          IN  c.pc = "idle" =>
                  /\ c.op = "has" => c.result = Some(Registered(c.before, 1))
                  /\ c.op = "resolve" =>
                         (c.raised = Some("KeyError")) = ~Registered(c.before, 1)
                  /\ c.op = "resolve" => (c.result = NONE) = (c.raised # NONE)
                  /\ c.op = "unregister" =>
                         /\ (c.raised = Some("KeyError")) = ~Registered(c.before, 1)
                         /\ ~Registered(registry, 1)
                  /\ c.op = "available" =>
                         /\ SortedNames(c.result[1])
                         /\ {c.result[1][i] : i \in 1..Len(c.result[1])} =
                                DOMAIN c.before)

\* DummyProvider was registered, resolved twice into two instances and
\* unregistered; a second unregister in another spelling failed
SecondUnregisterFailed ==
    LET c == threads[1]
    IN  /\ c.op = "unregister" /\ c.pc = "idle"
        /\ c.name[1] = [base |-> "dummy", shape |-> "upper"]
        /\ c.raised = Some("KeyError")
        /\ registry = BuiltinRegistry
        /\ issued = {[cls |-> "DummyProvider", id |-> 1],
                     [cls |-> "DummyProvider", id |-> 2]}


\* C23: register and unregister are serialized: a register without override
\* writes its name only while the name is not registered, so of two threads
\* that register one new name without override exactly one succeeds and no
\* interleaving lets the second overwrite the first.
RegisterNeverOverwrites ==
    [][\A t \in Threads :
           (threads[t].pc = "store" /\ threads'[t].pc = "idle"
                /\ ~threads[t].override) =>
               threads[t].key[1] \notin DOMAIN registry]_vars


\* C24: however collect calls on one source or one search term repeat or
\* overlap, each call that has its Source row finds exactly one row for its
\* provider and descriptor, the descriptor being the source handle, or
\* "search:" followed by q; no second Source row exists for any (provider,
\* descriptor) and no second Cursor row for any (provider, source).
OneSourceAndCursorPerKey ==
    /\ \A i, j \in 1..Len(sources) :
           (sources[i].provider = sources[j].provider
               /\ sources[i].descriptor = sources[j].descriptor) => i = j
    /\ \A i, j \in 1..Len(cursors) :
           (cursors[i].provider = cursors[j].provider
               /\ cursors[i].source = cursors[j].source) => i = j
    /\ \A p \in Procs :
           procs[p].pc \notin {"idle", "source_create"} =>
               LET a == procs[p].args[1]
                   descriptor == IF a.source # NONE THEN a.source[1]
                                 ELSE <<"search:", a.q[1][1]>>
               IN  /\ Cardinality({i \in 1..Len(sources) :
                          /\ sources[i].provider = a.provider
                          /\ sources[i].descriptor = descriptor}) = 1
                   /\ sources[procs[p].src].descriptor = descriptor
                   /\ procs[p].pc = "done" =>
                          Cardinality({i \in 1..Len(cursors) :
                              /\ cursors[i].provider = a.provider
                              /\ cursors[i].source = procs[p].src}) = 1

\* both calls searched the same term, the second looked the Source row up
\* before the first had created it, and both are over
RacedForTheSourceRow ==
    /\ \A p \in Procs : procs[p].pc = "done" /\ procs[p].args = Some(ConcSearchArgs)
    /\ procs[2].lost_race
    /\ Len(sources) = 1 /\ Len(cursors) = 1 /\ Len(jobs) = 2


\* C25: in every reachable state each Post row references an Author row that
\* exists and whose provider is the post's provider, also when two providers
\* return posts of the same author external id.
PostAuthorHasPostsProvider ==
    \A i \in 1..Len(posts) :
        /\ posts[i].author_id \in 1..Len(authors)
        /\ authors[posts[i].author_id].provider = posts[i].provider

\* both providers returned a post of did:plc:alice and both posts are stored,
\* each with its provider's author row
SameAuthorIdOnTwoProviders ==
    /\ Returned
    /\ \E i, j \in 1..Len(posts) :
           /\ posts[i].provider = "bluesky" /\ posts[j].provider = "dummy"
           /\ authors[posts[i].author_id].external_id = "did:plc:alice"
           /\ authors[posts[j].author_id].external_id = "did:plc:alice"
           /\ posts[i].author_id # posts[j].author_id


\* an error of the provider taxonomy, with the retry delay it carries
Mapped(kind, retry_after_s) ==
    bsky_raised = Some([kind |-> kind, retry_after_s |-> retry_after_s])

\* C26: fetch_since maps the failures of its HTTP exchange onto the provider
\* errors: status 429 raises RateLimited carrying the Retry-After delay, a 5xx
\* status or a request that failed in transport raises TemporaryNetworkError,
\* and any other 4xx status except 401 and 403 raises InvalidQuery.
FetchFailuresAreMapped ==
    (response # NONE /\ bsky_raised # NONE) =>
        LET st == response[1].status
        IN  /\ st = 429 => Mapped("RateLimited", response[1].retry_after)
            /\ (st = 0 \/ st >= 500) => Mapped("TemporaryNetworkError", NONE)
            /\ (st >= 400 /\ st < 500 /\ st \notin {401, 403, 429}) =>
                   Mapped("InvalidQuery", NONE)

\* C27: when both credentials are present and the login is answered 401,
\* configure fails with InvalidQuery: no session is returned and no client is
\* built for anonymous use.
Login401FailsConfigure ==
    (login # NONE /\ login[1].status = 401) =>
        /\ Mapped("InvalidQuery", NONE)
        /\ session = NONE
        /\ bsky.client = NONE

\* the login was attempted and answered with a token
LoginSucceeded == login # NONE /\ login[1].status = 200 /\ login[1].token # NONE

ForeignUrlsAreAlwaysRejected ==
    (cfg_call # NONE /\ cfg_call[1] # NONE) =>
        LET url == cfg_call[1][1]
        IN  ((\E i \in 1..Len(url) : url[i] = "://")
                 /\ ~(url[1] = "sqlite" /\ url[2] = "://")) =>
                /\ cfg_raised = Some("ValueError")
                /\ cfg_result = NONE


\* ids of the jobs, as the last status call read them, that its filters keep
Wanted ==
    LET a == status_args[1]
        r == status_read[1]
    IN  {i \in 1..Len(r.jobs) :
            /\ a.provider = "bluesky" => r.jobs[i].provider = "bluesky"
            /\ a.source # NONE =>
                   r.sources[r.jobs[i].source].descriptor = a.source[1]}

\* C30: status returns without error a snapshot whose jobs are at most
\* limit_jobs, and as many as match when fewer match; every job returned
\* matches the provider and source filters and is returned once; the jobs are
\* in non-increasing started_at order and no matching job left out started
\* later than a returned one; when nothing matches the lists are empty.
StatusReturnsMostRecentJobs ==
    status_args # NONE =>
        /\ status_raised = NONE /\ snapshot # NONE
        /\ LET a == status_args[1]
               js == snapshot[1].jobs
               r == status_read[1]
           IN  /\ Len(js) = Min(a.limit_jobs, Cardinality(Wanted))
               /\ \A n \in 1..Len(js) :
                      /\ js[n].id \in Wanted
                      /\ js[n].started_at = r.jobs[js[n].id].started_at
                      /\ js[n].status = r.jobs[js[n].id].status
                      /\ a.source # NONE => js[n].source = a.source[1]
               /\ \A n, m \in 1..Len(js) :
                      /\ n < m => js[n].started_at >= js[m].started_at
                      /\ n # m => js[n].id # js[m].id
               /\ \A i \in Wanted :
                      (\A n \in 1..Len(js) : js[n].id # i) =>
                          \A n \in 1..Len(js) :
                              r.jobs[i].started_at <= js[n].started_at
               /\ Wanted = {} => js = <<>>
               /\ (\A i \in 1..Len(r.cursors) :
                       a.source # NONE /\
                       r.sources[r.cursors[i].source].descriptor # a.source[1]) =>
                      snapshot[1].cursors = <<>>

\* two jobs match the filters and status, asked for one, returned the later
LaterOfTwoJobsReturned ==
    /\ status_args # NONE /\ snapshot # NONE
    /\ status_args[1].limit_jobs = 1
    /\ status_args[1].source = Some(<<"search:", "term">>)
    /\ Cardinality(Wanted) = 2
    /\ Len(status_read[1].jobs) = 2
    /\ Len(snapshot[1].jobs) = 1
    /\ snapshot[1].jobs[1].id = 2

(***************************************************************************)
(* C31.  As stated: collect(provider="bluesky", source=...) on a configured *)
(* runtime raises NotImplementedError.                                      *)
(***************************************************************************)
\* a step that enters collect with a source on a configured runtime
SourceCollectCalled ==
    /\ runs' = runs + 1
    /\ settings.configured
    /\ args' # NONE
    /\ args'[1].provider = "bluesky"
    /\ Truthy(args'[1].source)

FetchSinceCalled == fetch_calls' = fetch_calls + 1

\* C32: the first fetch_since call of a collect run receives no cursor, also
\* when a Cursor row of the (provider, source) is stored from an earlier run,
\* and every later call of the run receives exactly the next_cursor returned
\* by the immediately preceding batch.
CursorPassedIsPrecedingNextCursor ==
    [][FetchSinceCalled =>
          /\ fetch_calls = 0 => request_cursor' = NONE
          /\ fetch_calls > 0 =>
                /\ tape # <<>>
                /\ request_cursor' = tape[Len(tape)].next_cursor
                /\ request_cursor' # NONE]_vars

\* a run that began with a stored cursor position has made its first
\* fetch_since call, with no cursor
FirstCallIgnoredStoredCursor ==
    /\ runs = 2
    /\ pos_before # NONE
    /\ fetch_calls = 1
    /\ request_cursor = NONE

\* the places of batch b at which the provider returned external id e inside
\* the window of the running call
PlacesOf(b, e) ==
    {n \in 1..Len(b.items) :
        /\ b.items[n].external_id = e
        /\ WithinBounds(b.items[n].created_at, since_dt, until_dt)}

\* C33: the posts a collect call inserts receive ids (places in the Post table)
\* in the order the provider returned them: the rows a page adds come after
\* every row stored before, those of earlier pages included, and among
\* themselves in the order of their items in the batch.
PostIdsFollowProviderOrder ==
    [][(tape' # tape /\ Len(tape') = Len(tape) + 1) =>
          LET b == tape'[Len(tape')]
          IN  /\ Len(posts') >= Len(posts)
              /\ SubSeq(posts', 1, Len(posts)) = posts
              /\ \A i, j \in (Len(posts) + 1)..Len(posts') :
                    i < j =>
                       /\ PlacesOf(b, posts'[i].external_id) # {}
                       /\ PlacesOf(b, posts'[j].external_id) # {}
                       /\ \E n \in PlacesOf(b, posts'[i].external_id) :
                             \A m \in PlacesOf(b, posts'[j].external_id) : n < m]_vars

\* one batch returned the later post ahead of the earlier one and both were
\* inserted, in that order
TwoPostsOfOneBatchInserted ==
    /\ Returned
    /\ Len(tape) = 1
    /\ Len(tape[1].items) = 2
    /\ tape[1].items[1].created_at > tape[1].items[2].created_at
    /\ Len(posts) = Len(posts_before) + 2
    /\ posts[Len(posts) - 1].external_id = tape[1].items[1].external_id
    /\ posts[Len(posts)].external_id = tape[1].items[2].external_id

\* C34: until_utc alone never sets reached_until: the report of a call with
\* until_utc set and since_utc unset, against a provider none of whose batches
\* set reached_until, has reached_until = False, also when every returned item
\* is later than until_utc and skipped.
UntilAloneNeverReachesUntil ==
    (/\ Returned
     /\ args[1].since_utc = NONE
     /\ args[1].until_utc # NONE
     /\ \A k \in 1..Len(tape) : ~tape[k].reached_until)
        => report[1].reached_until = FALSE

\* a call with only an upper bound returned after a batch all of whose items
\* were later than the bound and skipped, the provider not signalling
AllItemsAfterUntilSkipped ==
    /\ Returned
    /\ args[1].since_utc = NONE
    /\ args[1].until_utc # NONE
    /\ Len(tape) = 1
    /\ ~tape[1].reached_until
    /\ Len(tape[1].items) = 2
    /\ \A n \in 1..2 : tape[1].items[n].created_at > args[1].until_utc[1]
    /\ report[1].inserted = 0
    /\ report[1].reached_until = FALSE

\* C35: the report of a successful collect carries the warnings the provider
\* session declared at configure: when credentials were supplied and the login
\* failed, report.warnings holds the session's authentication_failed warning.
ReportCarriesSessionWarnings ==
    [][(report = NONE /\ report' # NONE /\ session # NONE) =>
          report'[1].warnings = session[1].warnings]_vars

\* C36: the paging loop terminates whenever each fetch_since call returns:
\* the remaining budget is a positive integer at the head of the loop, it
\* never exceeds the initial budget, and every iteration either leaves the
\* loop or strictly decreases it, whatever batches the provider returns; a
\* first run with a budget within the calls of a behaviour leaves the loop.
EveryIterationLeavesOrDecreasesBudget ==
    /\ [](pc = "loop" =>
            /\ remaining \in 1..Sentinel
            /\ remaining <= InitialRemaining(args[1].limit))
    /\ [][(pc = "loop" /\ FetchSinceCalled) =>
             \/ pc' # "loop"
             \/ /\ remaining' < remaining
                /\ remaining' > 0]_vars
    /\ ((pc = "loop" /\ runs = 1 /\ args[1].limit # NONE) ~> (pc # "loop"))

\* a provider returned the same non-null cursor twice, with items, and the
\* loop is about to call it a third time with a smaller budget
RepeatedCursorConsumedBudget ==
    /\ pc = "loop"
    /\ fetch_calls = 2
    /\ Len(tape) = 2
    /\ tape[1].next_cursor = tape[2].next_cursor
    /\ tape[1].next_cursor = Some(<<"c1">>)
    /\ remaining = Sentinel - Len(tape[1].items) - Len(tape[2].items)
    /\ remaining < Sentinel - 1

\* C37: with no concurrent writer, report.inserted of a successful collect
\* equals the number of Post rows the call added (the count after minus the
\* count before), also when a batch holds the same external_id more than once.
InsertedIsRowsAdded ==
    Returned => report[1].inserted = Len(posts) - Len(posts_before)

\* the running call ended by raising after its FetchJob was opened
RaisedAfterJobOpened == pc = "idle" /\ raised # NONE /\ job # 0

\* C38: when collect raises after its FetchJob was opened, the stored Cursor
\* of the (provider, source) is as it was when the call began: no step of a
\* run but the one that returns the report writes the Cursor table, so no
\* Cursor row is created or updated, also when earlier pages of the run were
\* committed and carried a non-null next_cursor.
CursorUnchangedWhenCollectRaises ==
    /\ [](RaisedAfterJobOpened =>
            StoredCursor(cursors, prov_rec[1], src_rec) = pos_before)
    /\ [][(pc # "idle" /\ ~(pc' = "idle" /\ raised' = NONE /\ report' # NONE)) =>
             cursors' = cursors]_vars

\* a second run committed a page with a cursor other than the stored one and
\* then raised: the stored cursor is still the first run's
RaisedAfterPageWithNewCursor ==
    /\ RaisedAfterJobOpened
    /\ runs = 2
    /\ pos_before # NONE
    /\ last_cursor_token # NONE
    /\ last_cursor_token # pos_before
    /\ Len(posts) > Len(posts_before)
    /\ StoredCursor(cursors, prov_rec[1], src_rec) = pos_before

\* a step in which a collect call fails before it opens its FetchJob
RejectedCall ==
    /\ pc = "idle" /\ pc' = "idle"
    /\ runs' = runs + 1
    /\ raised' # NONE

\* the arguments pass the validation, name a registered provider and carry
\* bounds that parse_utc reads
Acceptable(a) ==
    /\ ~InvalidArgs(a)
    /\ Has(registry, Spelled(a.provider))
    /\ ~ParseUtcFails(a.since_utc)
    /\ ~ParseUtcFails(a.until_utc)

\* C39: a collect call that fails before its FetchJob is opened (invalid
\* source/q combination, unregistered provider name, malformed since_utc or
\* until_utc) leaves the store unchanged -- no Provider, Source, FetchJob,
\* Cursor, Author or Post row is created -- and calls fetch_since never; a
\* FetchJob is opened only by a call whose arguments pass the three tests.
RejectedCallLeavesStoreUnchanged ==
    [][/\ RejectedCall =>
            /\ store' = store
            /\ fetches' = fetches
            /\ job' = 0 /\ report' = NONE
       /\ (runs' = runs + 1 /\ jobs' # jobs) => Acceptable(args'[1])
       /\ (runs' = runs + 1 /\ args' # NONE /\ ~Acceptable(args'[1])) => RejectedCall]_vars

\* after a successful call stored rows, a call with a malformed until_utc was
\* rejected
MalformedBoundRejectedOnFilledStore ==
    /\ pc = "idle"
    /\ runs = 2
    /\ raised = Some("ValueError")
    /\ job = 0
    /\ args # NONE
    /\ ~InvalidArgs(args[1])
    /\ ParseUtcFails(args[1].until_utc)
    /\ posts # <<>>
    /\ Len(jobs) = 1

\* C40: a FetchJob only moves from running to succeeded or from running to
\* failed: in every committed state its status is one of the three and
\* finished_at is null exactly when the status is running; rows are only added
\* to the table, and a job committed as succeeded or failed is never written
\* again.
JobStatusOnlyLeavesRunning ==
    /\ [](\A i \in 1..Len(jobs) :
            /\ jobs[i].status \in {"running", "succeeded", "failed"}
            /\ (jobs[i].finished_at = NONE) <=> (jobs[i].status = "running"))
    /\ [][/\ Len(jobs') >= Len(jobs)
          /\ \A i \in 1..Len(jobs) :
                /\ jobs[i].status # "running" => jobs'[i] = jobs[i]
                /\ jobs'[i].status # jobs[i].status =>
                      /\ jobs[i].status = "running"
                      /\ jobs'[i].status \in {"succeeded", "failed"}
          /\ \A i \in (Len(jobs) + 1)..Len(jobs') :
                jobs'[i].status = "running"]_vars

\* the finalization of a second run raised: its job is failed, after it was
\* running, and the first run's job is still succeeded
FailedInFinalizationAfterSucceededRun ==
    /\ pc = "idle"
    /\ raised = Some("DatabaseError")
    /\ Len(jobs) = 2
    /\ jobs[1].status = "succeeded"
    /\ jobs[2].status = "failed"
    /\ jobs[2].finished_at # NONE
    /\ fetch_calls > 0
    /\ Len(tape) = fetch_calls

====
